---------------------------- MODULE Spec2Model ----------------------------
(***************************************************************************)
(* State-machine model of the request handlers of the legal assistant      *)
(* backend (src/backend/handler): the three document-storage handlers      *)
(* (document_storage.py: content inline in DynamoDB; document_storage_efs  *)
(* .py: content on EFS, metadata in DynamoDB; document_storage_mongodb.py: *)
(* content in GridFS, metadata in a MongoDB collection) and the e-mail     *)
(* handler.  One Lambda deployment runs one handler; requests are served   *)
(* one at a time.                                                          *)
(*                                                                         *)
(* Text.  A Python str is a sequence of runs [c |-> code point, n |->      *)
(* repeat count], so that a 350,001 character document is a one-element    *)
(* sequence.  Short texts are expanded to flat sequences of code points    *)
(* where the code looks at single characters (base64, previews).  Names,   *)
(* types and ids are sequences of string tokens.                           *)
(***************************************************************************)
EXTENDS Integers, Sequences, FiniteSets, TLC

(***************************************************************************)
(* Program constants.                                                      *)
(***************************************************************************)
\* document_storage.py:59   max_size = 350000
max_size == 350000
\* document_storage.py:126  documentContent[:200]; *_efs.py:162, *_mongodb.py:212
PreviewLen == 200
\* document_storage.py:161  documents[:10]; *_efs.py:220; *_mongodb.py:247
DisplayLimit == 10

(***************************************************************************)
(* Bounds of the model.                                                    *)
(***************************************************************************)
\* number of saveDocument requests that generate a document id in one run
MaxSaves == 2
\* number of documents saved in the runs that fill the store for listDocuments
MaxListed == 11
\* number of documents of the second type among them
MaxMemos == 1
\* SpecEvents: the ids drawn
MaxIds == 1
\* SpecSteps: the invocations of save_document in progress at one time, and
\* the ids drawn
MaxInvocations == 2
MaxStepIds == 2

(***************************************************************************)
(* Python str operations on run-length text.  The recursive definitions    *)
(* split their argument in halves.                                         *)
(***************************************************************************)
Min(a, b) == IF a < b THEN a ELSE b

Left(s) == SubSeq(s, 1, Len(s) \div 2)

Right(s) == SubSeq(s, (Len(s) \div 2) + 1, Len(s))

RECURSIVE StrLen(_)
\* len(s)
StrLen(s) ==
    IF s = <<>> THEN 0
    ELSE IF Len(s) = 1 THEN s[1].n
    ELSE StrLen(Left(s)) + StrLen(Right(s))

\* number of bytes of one code point under UTF-8
Utf8Width(c) == IF c < 128 THEN 1 ELSE IF c < 2048 THEN 2 ELSE IF c < 65536 THEN 3 ELSE 4

RECURSIVE ByteLen(_)
\* len(s.encode('utf-8'))
ByteLen(s) ==
    IF s = <<>> THEN 0
    ELSE IF Len(s) = 1 THEN s[1].n * Utf8Width(s[1].c)
    ELSE ByteLen(Left(s)) + ByteLen(Right(s))

RECURSIVE Slice(_, _)
\* s[:k]  (k characters, not bytes)
Slice(s, k) ==
    IF s = <<>> \/ k <= 0 THEN <<>>
    ELSE IF Len(s) = 1 THEN <<[c |-> s[1].c, n |-> Min(k, s[1].n)]>>
    ELSE IF k <= StrLen(Left(s)) THEN Slice(Left(s), k)
    ELSE Left(s) \o Slice(Right(s), k - StrLen(Left(s)))

RECURSIVE Drop(_, _)
\* s[k:]
Drop(s, k) ==
    IF s = <<>> THEN <<>>
    ELSE IF k <= 0 THEN s
    ELSE IF Len(s) = 1
         THEN IF s[1].n > k THEN <<[c |-> s[1].c, n |-> s[1].n - k]>> ELSE <<>>
    ELSE IF k >= StrLen(Left(s)) THEN Drop(Right(s), k - StrLen(Left(s)))
    ELSE Drop(Left(s), k) \o Right(s)

Repeat(c, n) == [i \in 1..n |-> c]

RECURSIVE Expand(_)
\* the flat sequence of code points of a (short) text
Expand(s) ==
    IF s = <<>> THEN <<>>
    ELSE IF Len(s) = 1 THEN Repeat(s[1].c, s[1].n)
    ELSE Expand(Left(s)) \o Expand(Right(s))

\* the run-length text of a flat sequence of code points
Runs(f) == [i \in 1..Len(f) |-> [c |-> f[i], n |-> 1]]

\* all characters are ASCII (str.encode('ascii') succeeds)
IsAscii(s) == \A i \in 1..Len(s) : s[i].c < 128

\* "\n\n[CONTENT TRUNCATED - Document exceeds DynamoDB size limit]"
TruncationMarker ==
    Runs(<<10, 10, 91, 67, 79, 78, 84, 69, 78, 84, 32, 84, 82, 85, 78, 67, 65,
           84, 69, 68, 32, 45, 32, 68, 111, 99, 117, 109, 101, 110, 116, 32,
           101, 120, 99, 101, 101, 100, 115, 32, 68, 121, 110, 97, 109, 111,
           68, 66, 32, 115, 105, 122, 101, 32, 108, 105, 109, 105, 116, 93>>)

(***************************************************************************)
(* UTF-8 on flat sequences.                                                *)
(***************************************************************************)
\* the bytes of one code point
Utf8Char(c) ==
    IF c < 128 THEN <<c>>
    ELSE IF c < 2048 THEN <<192 + (c \div 64), 128 + (c % 64)>>
    ELSE IF c < 65536
         THEN <<224 + (c \div 4096), 128 + ((c \div 64) % 64), 128 + (c % 64)>>
    ELSE <<240 + (c \div 262144), 128 + ((c \div 4096) % 64),
           128 + ((c \div 64) % 64), 128 + (c % 64)>>

RECURSIVE Utf8Encode(_)
\* bytes(f, 'utf-8') of a flat text
Utf8Encode(f) ==
    IF f = <<>> THEN <<>>
    ELSE IF Len(f) = 1 THEN Utf8Char(f[1])
    ELSE Utf8Encode(Left(f)) \o Utf8Encode(Right(f))

IsCont(b) == b >= 128 /\ b <= 191

\* the length of the well-formed UTF-8 sequence that starts at bs[p], 0 when
\* there is none (an invalid lead byte, a bad or missing continuation byte)
Utf8SeqLen(bs, p) ==
    LET b == bs[p]
        left == Len(bs) - p + 1
    IN
    IF b < 128 THEN 1
    ELSE IF b >= 194 /\ b <= 223
         THEN IF left >= 2 /\ IsCont(bs[p + 1]) THEN 2 ELSE 0
    ELSE IF b >= 224 /\ b <= 239
         THEN IF /\ left >= 3
                 /\ IsCont(bs[p + 1])
                 /\ IsCont(bs[p + 2])
                 /\ (b = 224 => bs[p + 1] >= 160)
                 /\ (b = 237 => bs[p + 1] <= 159)
              THEN 3 ELSE 0
    ELSE IF b >= 240 /\ b <= 244
         THEN IF /\ left >= 4
                 /\ IsCont(bs[p + 1])
                 /\ IsCont(bs[p + 2])
                 /\ IsCont(bs[p + 3])
                 /\ (b = 240 => bs[p + 1] >= 144)
                 /\ (b = 244 => bs[p + 1] <= 143)
              THEN 4 ELSE 0
    ELSE 0

\* the code point of the well-formed sequence of k bytes at bs[p]
Utf8CodePoint(bs, p, k) ==
    IF k = 1 THEN bs[p]
    ELSE IF k = 2 THEN (bs[p] - 192) * 64 + (bs[p + 1] - 128)
    ELSE IF k = 3
         THEN (bs[p] - 224) * 4096 + (bs[p + 1] - 128) * 64 + (bs[p + 2] - 128)
    ELSE (bs[p] - 240) * 262144 + (bs[p + 1] - 128) * 4096
             + (bs[p + 2] - 128) * 64 + (bs[p + 3] - 128)

\* the positions of the bytes that are no continuation bytes, in order: where
\* the sequences of a well-formed byte string start
Utf8Starts(bs) ==
    SelectSeq([p \in 1..Len(bs) |-> p], LAMBDA p : ~IsCont(bs[p]))

\* bs.decode('utf-8'): [ok |-> TRUE, text |-> flat text], or ok = FALSE for
\* UnicodeDecodeError (some sequence is not well formed).  The byte string is
\* well formed when it starts with no continuation byte and the sequence at
\* every start is well formed and reaches exactly to the next start or the end.
Utf8Decode(bs) ==
    LET starts == Utf8Starts(bs)
        wellFormed ==
            /\ bs # <<>> => ~IsCont(bs[1])
            /\ \A i \in 1..Len(starts) :
                  LET k == Utf8SeqLen(bs, starts[i])
                  IN /\ k > 0
                     /\ starts[i] + k =
                           (IF i < Len(starts) THEN starts[i + 1] ELSE Len(bs) + 1)
    IN IF wellFormed
       THEN [ok |-> TRUE,
             text |-> [i \in 1..Len(starts) |->
                          Utf8CodePoint(bs, starts[i], Utf8SeqLen(bs, starts[i]))]]
       ELSE [ok |-> FALSE, text |-> <<>>]

(***************************************************************************)
(* base64.b64decode(s) with validate=False (binascii.a2b_base64).          *)
(***************************************************************************)
\* the 6-bit value of a character of the base64 alphabet, 64 for any other
B64Value(c) ==
    IF c >= 65 /\ c <= 90 THEN c - 65
    ELSE IF c >= 97 /\ c <= 122 THEN c - 71
    ELSE IF c >= 48 /\ c <= 57 THEN c + 4
    ELSE IF c = 43 THEN 62
    ELSE IF c = 47 THEN 63
    ELSE 64

\* The decoder's loop over the characters f skips the characters outside the
\* alphabet and collects the others in groups of four (quad_pos is the
\* position in the group).  An '=' after two or three characters of a group
\* ends the input when, with the '=' that follow the group's last character,
\* it fills the group.  The input is malformed when it ends inside a group.
\* DataBefore(f, i): the alphabet characters before position i
DataBefore(f, i) == Cardinality({j \in 1..(i - 1) : B64Value(f[j]) < 64})

\* the '=' among f[j+1..i], j the position of the last alphabet character
\* before i
PadsUpTo(f, i) ==
    Cardinality({j \in 1..i : /\ f[j] = 61
                              /\ \A m \in j..i : B64Value(f[m]) = 64})

\* the '=' at position i ends the input
EndsInput(f, i) ==
    /\ f[i] = 61
    /\ DataBefore(f, i) % 4 >= 2
    /\ (DataBefore(f, i) % 4) + PadsUpTo(f, i) >= 4

\* the three bytes of a group of four 6-bit values, cut to the bytes that
\* m values give
B64Bytes(d) ==
    LET m == Len(d)
        n == 3 * (m \div 4) + (IF m % 4 = 2 THEN 1 ELSE IF m % 4 = 3 THEN 2 ELSE 0)
    IN [j \in 1..n |->
          LET g == 4 * ((j - 1) \div 3)
              r == (j - 1) % 3
          IN IF r = 0 THEN d[g + 1] * 4 + (d[g + 2] \div 16)
             ELSE IF r = 1 THEN (d[g + 2] % 16) * 16 + (d[g + 3] \div 4)
             ELSE (d[g + 3] % 4) * 64 + d[g + 4]]

\* a2b_base64 on a flat text
B64Scan(f) ==
    LET ends == {i \in 1..Len(f) : EndsInput(f, i)}
        stop == IF ends = {} THEN Len(f) + 1
                ELSE CHOOSE i \in ends : \A j \in ends : i <= j
        data == SelectSeq(SubSeq(f, 1, stop - 1), LAMBDA c : B64Value(c) < 64)
        values == [j \in 1..Len(data) |-> B64Value(data[j])]
    IN [ok |-> ends # {} \/ Len(data) % 4 = 0, bytes |-> B64Bytes(values)]

RECURSIVE DataChars(_)
\* how many characters of s belong to the base64 alphabet
DataChars(s) ==
    IF s = <<>> THEN 0
    ELSE IF Len(s) = 1 THEN (IF B64Value(s[1].c) < 64 THEN s[1].n ELSE 0)
    ELSE DataChars(Left(s)) + DataChars(Right(s))

\* [ok |-> TRUE, bytes |-> ...] when b64decode(s) returns, ok = FALSE when it
\* raises (non-ASCII text: ValueError; a group left incomplete: binascii.Error).
\* A text without '=' ends the loop inside a group when DataChars(s) % 4 # 0,
\* so it is looked at character by character only when the decoding succeeds.
b64decode(s) ==
    IF ~IsAscii(s) THEN [ok |-> FALSE, bytes |-> <<>>]
    ELSE IF (\A i \in 1..Len(s) : s[i].c # 61) /\ DataChars(s) % 4 # 0
         THEN [ok |-> FALSE, bytes |-> <<>>]
    ELSE LET r == B64Scan(Expand(s))
         IN IF r.ok THEN r ELSE [ok |-> FALSE, bytes |-> <<>>]

(***************************************************************************)
(* Byte strings.  The bytes written to a file or a blob are either the     *)
(* UTF-8 encoding of a text (enc = "utf8", kept as the text and encoded    *)
(* when read or measured) or the output of b64decode (enc = "raw", a flat  *)
(* sequence of bytes).                                                     *)
(***************************************************************************)
EncodedBytes(s) == [enc |-> "utf8", text |-> s, raw |-> <<>>]

RawBytes(bs) == [enc |-> "raw", text |-> <<>>, raw |-> bs]

\* len(data), os.path.getsize(path)
BytesLen(b) == IF b.enc = "utf8" THEN ByteLen(b.text) ELSE Len(b.raw)

\* f.read(k) of a binary stream: the first k bytes (k characters of a text
\* encode to at least k bytes)
ReadBytes(b, k) ==
    LET all == IF b.enc = "utf8" THEN Utf8Encode(Expand(Slice(b.text, k))) ELSE b.raw
    IN SubSeq(all, 1, Min(k, Len(all)))

\* open(path, 'r', encoding='utf-8').read(k): the first k characters, or
\* ok = FALSE for UnicodeDecodeError.  A file shorter than the reader's chunk
\* is decoded whole before any character is returned.
ReadText(b, k) ==
    IF b.enc = "utf8"
    THEN [ok |-> TRUE, text |-> Expand(Slice(b.text, k))]
    ELSE LET d == Utf8Decode(b.raw)
         IN [ok |-> d.ok, text |-> SubSeq(d.text, 1, Min(k, Len(d.text)))]

(***************************************************************************)
(* Requests.  An event carries a function name and an ordered list of      *)
(* {name, value} parameters.                                               *)
(***************************************************************************)
Param(n, v) == [name |-> n, value |-> v]

RECURSIVE LastIndex(_, _, _)
LastIndex(parameters, key, i) ==
    IF i = 0 THEN 0
    ELSE IF parameters[i].name = key THEN i
    ELSE LastIndex(parameters, key, i - 1)

\* the loop stops at the first entry with the name
ParamIndexFirst(parameters, key) ==
    LET at == {i \in 1..Len(parameters) : parameters[i].name = key}
    IN IF at = {} THEN 0 ELSE CHOOSE i \in at : \A j \in at : i <= j

\* the position of the entry that the extraction loop
\*   for param in parameters: if param['name'] == key: local = param['value']
\* assigns last, 0 when the local stays None
ParamIndex(parameters, key) == LastIndex(parameters, key, Len(parameters))

\* the local is not None (an empty string passes)
IsPresent(parameters, key) == ParamIndex(parameters, key) # 0

\* the local is truthy: set and not the empty string
HasValue(parameters, key) ==
    /\ ParamIndex(parameters, key) # 0
    /\ parameters[ParamIndex(parameters, key)].value # <<>>

\* the local's value (read only where the code has found it truthy)
ValueOf(parameters, key) == parameters[ParamIndex(parameters, key)].value

\* x if x is not None else default: the empty string is kept
OrDefaultIfNone(parameters, key, default) ==
    IF ParamIndex(parameters, key) # 0 THEN ValueOf(parameters, key) ELSE default

\* x or default
OrDefault(parameters, key, default) ==
    IF HasValue(parameters, key) THEN ValueOf(parameters, key) ELSE default

(***************************************************************************)
(* The event that lambda_handler receives.  A key of the event is present  *)
(* with a value or absent: event[key] raises KeyError on an absent key,    *)
(* event.get(key, default) gives the default.                              *)
(***************************************************************************)
Present(v) == [present |-> TRUE, value |-> v]
Absent == [present |-> FALSE]

\* event.get(key, default)
Get(field, default) == IF field.present THEN field.value ELSE default

Event(action_group, function, message_version, parameters) ==
    [actionGroup |-> action_group, function |-> function,
     messageVersion |-> message_version, parameters |-> parameters]

\* an entry of the parameters list that has no key 'name'
Nameless(v) == [value |-> v]

\* param['name'] raises KeyError in the loop that extracts the parameters
Malformed(parameters) ==
    \E i \in 1..Len(parameters) : "name" \notin DOMAIN parameters[i]

\* the header of the events of test_document_storage.py
ActionGroup == "document_storage_action_group"
MessageVersion == "1"

\* document names, types and analysis texts of the requests
NameA == <<"a.txt">>
\* a name that itself contains the text "ID: "
NameWithId == <<"ID: ", "x">>
TypeContract == <<"contract">>
TypeMemo == <<"memo">>
AnalysisOk == <<"reviewed">>
DefaultType == <<"legal_document">>
DefaultAnalysis == <<"No analysis performed">>

\* document contents of the requests
\* "ab ": two base64 characters, so b64decode raises and it is plain text
ContentPlain == <<[c |-> 97, n |-> 1], [c |-> 98, n |-> 1], [c |-> 32, n |-> 1]>>
\* the content of test_document_storage.py's test_save_document:
\* "This is a test legal contract with important clauses..."
ContentTest ==
    Runs(<<
84, 104, 105, 115, 32, 105, 115, 32, 97, 32, 116, 101, 115,
           116, 32, 108, 101, 103, 97, 108, 32, 99, 111, 110, 116,
           114, 97, 99, 116, 32, 119, 105, 116, 104, 32, 105, 109,
           112, 111, 114, 116, 97, 110, 116, 32, 99, 108, 97, 117,
           115, 101, 115, 46, 46, 46>>)
\* "é": not ASCII
ContentAccent == <<[c |-> 233, n |-> 1]>>
\* "a" and 100 "é": 101 characters, 201 bytes, byte 200 inside a character
ContentCross == <<[c |-> 97, n |-> 1], [c |-> 233, n |-> 100]>>
\* 350,001 "a": one byte over max_size
ContentBig == <<[c |-> 97, n |-> max_size + 1]>>
\* 175,100 "é": 350,200 bytes in fewer than max_size characters (the item
\* stays under DynamoDB's 400 KB)
ContentBigAccent == <<[c |-> 233, n |-> (max_size \div 2) + 100]>>

ValidContents ==
    {ContentPlain, ContentTest, ContentAccent, ContentCross, ContentBig, ContentBigAccent}

\* the parameter lists of saveDocument requests: every content under one
\* name and type, every name, and every combination of type and analysis
SaveParameters ==
    {<<Param("documentName", NameA), Param("documentContent", c),
       Param("documentType", TypeContract)>> : c \in ValidContents \cup {<<>>}}
    \cup {<<Param("documentName", NameA), Param("documentType", TypeContract)>>}
    \cup {<<Param("documentName", n), Param("documentContent", ContentPlain),
            Param("documentType", TypeContract)>> : n \in {<<>>, NameWithId}}
    \cup {<<Param("documentContent", ContentPlain), Param("documentType", TypeContract)>>}
    \cup {<<Param("documentName", NameA), Param("documentContent", ContentPlain),
            Param("documentType", t), Param("analysisResults", AnalysisOk)>>
            : t \in {<<>>, TypeMemo}}
    \cup {<<Param("documentName", NameA), Param("documentContent", ContentPlain)>>}

(***************************************************************************)
(* State.                                                                  *)
(***************************************************************************)
VARIABLES
    handler,          \* the module this deployment runs
    documents_table,  \* metadata records, in insertion order (DynamoDB table
                      \* legal_documents, MongoDB collection db.documents)
    efs_root,         \* EFS_MOUNT_PATH exists
    efs_dirs,         \* the per-document directories under EFS_MOUNT_PATH
    efs_files,        \* file path -> bytes
    gridfs,           \* GridFS: file id -> [data, filename, metadata]
    toDoList,         \* todolist.table: the items of the DynamoDB table toDoList
    analysis_table,   \* legal_analyzer.analysis_table: the items of legal_analysis
    client,           \* document_storage_mongodb.client: 0 is None, else the
                      \* connection method (1..3) that built it
    db,               \* document_storage_mongodb.db and .fs: 0 is None, else the
    fs,               \* connection method whose client they were built from
    issued,           \* how many uuid4() values have been drawn
    now,              \* the clock read by datetime.utcnow()
    inflight,         \* the invocations of save_document that have begun and
                      \* not returned: invocation -> its position and locals
    response,         \* the last request and what lambda_handler returned
    saveLog,          \* history: the saveDocument requests that succeeded
    failedSaves,      \* history: the saves whose metadata write failed after
                      \* the content write
    pc,               \* PersistentAgent.run: the statement it is at
    running,          \* PersistentAgent.running
    stdin,            \* the lines written to the process and not yet read
    stdin_open,       \* the writer has not closed the process's stdin
    stdout,           \* the lines the process has printed on stdout
    exit_status,      \* the exit status of the process, once it has exited
    line,             \* run's local line: the stripped line being answered
    answer,           \* run's local response: computed and not yet printed
    current_session_id, \* LegalAgentInterface.current_session_id
    returned,         \* the last call of a LegalAgentInterface method and
                      \* the value it returned
    readLog,          \* history: the lines that readline() has returned
    agentCalls        \* history: the calls of LegalAgentInterface.invoke_agent

\* the state of persistent_agent.py and legal_agent_interface.py
agentVars == <<pc, running, stdin, stdin_open, stdout, exit_status, line, answer,
               current_session_id, returned, readLog, agentCalls>>

vars == <<handler, documents_table, efs_root, efs_dirs, efs_files, gridfs,
          toDoList, analysis_table, client, db, fs, issued, now, inflight, response,
          saveLog, failedSaves, pc, running, stdin, stdin_open, stdout,
          exit_status, line, answer, current_session_id, returned, readLog, agentCalls>>

DocumentHandlers ==
    {"document_storage", "document_storage_efs", "document_storage_mongodb"}

\* the handlers that keep the content outside the metadata record
FileBackends == {"document_storage_efs", "document_storage_mongodb"}

Handlers == DocumentHandlers \cup {"email_handler", "todolist", "legal_analyzer"}

\* str(uuid.uuid4()): the n-th identifier drawn.  Identifiers are taken to be
\* fresh: two draws never return the same value.
Uuid(n) == <<"uuid-" \o ToString(n)>>

\* the ObjectId that fs.put gives the n-th blob
ObjectId(n) == <<"oid-" \o ToString(n)>>

\* the stores a request can change
Stores ==
    [documents_table |-> documents_table, efs_dirs |-> efs_dirs,
     efs_files |-> efs_files, gridfs |-> gridfs, toDoList |-> toDoList,
     analysis_table |-> analysis_table, issued |-> issued, now |-> now]

\* a status that marks a record as removed
StatusDeleted == "deleted"

\* 'status': 'active', the status that save_document gives a record
StatusActive == "active"

\* the record of a metadata store with this documentId: get_item(Key=...),
\* find_one({'documentId': ...}); <<>> when there is none
FindRecords(table, document_id) ==
    SelectSeq(table, LAMBDA d : d.documentId = document_id)

\* a put_item under one key for every item: the table holds the last item
PutItemSameKey(table, item) == <<item>>

\* documents_table.put_item(Item=item): replaces the item with the same key
PutItem(table, item) ==
    Append(SelectSeq(table, LAMBDA d : d.documentId # item.documentId), item)

\* db.documents.insert_one(doc)
InsertOne(table, doc) == Append(table, doc)

\* a write that raises although the store has applied it
WriteThenFail(table, item) == Append(table, item)

\* put_item / insert_one raising: the store keeps what it had
FailedWrite(table, item) == table

(***************************************************************************)
(* What a handler function does: the stores it leaves, and either the      *)
(* text of its response (raised = FALSE) or the exception it raises.       *)
(* cause names the raise statement: "validation" (a required parameter is  *)
(* missing or empty), "unavailable" (a call to the backing store failed),  *)
(* "other".  doc is the document the function created or read.             *)
(***************************************************************************)
NoDoc == [documentId |-> <<>>, locator |-> <<>>]

\* response['Item'] read without the test for its presence: KeyError when the
\* lookup found nothing
ReturnItem(st, body, doc) ==
    IF body.kind = "not_found"
    THEN [st |-> st, raised |-> TRUE, exc |-> "KeyError", cause |-> "other",
          body |-> [kind |-> "error", text |-> "Error retrieving document"], doc |-> doc]
    ELSE [st |-> st, raised |-> FALSE, exc |-> "", cause |-> "none", body |-> body,
          doc |-> doc]

Return(st, body, doc) ==
    [st |-> st, raised |-> FALSE, exc |-> "", cause |-> "none", body |-> body, doc |-> doc]

Raise(st, exc, cause, msg, doc) ==
    [st |-> st, raised |-> TRUE, exc |-> exc, cause |-> cause,
     body |-> [kind |-> "error", text |-> msg], doc |-> doc]

\* the keys of a value that is not the envelope
NoEnvelope == [actionGroup |-> "", function |-> "", messageVersion |-> ""]

\* an envelope whose messageVersion is the literal '1'
create_response_v1(action_group, function, message_version, r) ==
    [shape |-> "envelope", statusCode |-> 0,
     envelope |-> [actionGroup |-> action_group, function |-> function,
                   messageVersion |-> "1"],
     body |-> r.body, cause |-> "none", doc |-> r.doc]

\* create_response(action_group, function, message_version, response_body):
\* {response: {actionGroup, function, functionResponse: {responseBody:
\* {TEXT: {body}}}}, messageVersion}
create_response(action_group, function, message_version, r) ==
    [shape |-> "envelope", statusCode |-> 0,
     envelope |-> [actionGroup |-> action_group, function |-> function,
                   messageVersion |-> message_version],
     body |-> r.body, cause |-> "none", doc |-> r.doc]

\* return {'statusCode': status, 'body': ...}
ErrorPair(status, r) ==
    [shape |-> "status", statusCode |-> status, envelope |-> NoEnvelope,
     body |-> r.body, cause |-> r.cause, doc |-> r.doc]

\* no except clause of lambda_handler matches: the exception leaves it
Escaped(r) ==
    [shape |-> "exception", statusCode |-> 0, envelope |-> NoEnvelope,
     body |-> r.body, cause |-> r.cause, doc |-> r.doc]

(***************************************************************************)
(* document_storage.py: content inline in the DynamoDB item.               *)
(***************************************************************************)
\* the validation of save_document (lines 52-55)
save_valid(parameters) ==
    HasValue(parameters, "documentName") /\ HasValue(parameters, "documentContent")

\* lines 61-63: the content that is stored
Truncated(documentContent) ==
    IF ByteLen(documentContent) > max_size
    THEN Slice(documentContent, max_size) \o TruncationMarker
    ELSE documentContent

\* lines 58, 80: the size that is stored
content_size(documentContent) == ByteLen(documentContent)

\* f'Document "{documentName}" saved successfully with ID: {document_id}'
SavedText(documentName, document_id) ==
    <<"Document \"">> \o documentName \o <<"\" saved successfully with ", "ID: ">>
        \o document_id

\* lines 71-81: document_item
InlineItem(parameters, document_id, date) ==
    [documentId |-> document_id,
     documentName |-> ValueOf(parameters, "documentName"),
     documentContent |-> Truncated(ValueOf(parameters, "documentContent")),
     documentType |-> OrDefault(parameters, "documentType", DefaultType),
     uploadDate |-> date,
     lastModified |-> date,
     analysisResults |-> OrDefault(parameters, "analysisResults", DefaultAnalysis),
     status |-> StatusActive,
     contentSize |-> content_size(ValueOf(parameters, "documentContent"))]

save_document_inline(parameters, put_ok) ==
    IF ~HasValue(parameters, "documentName")
    THEN Raise(Stores, "ValueError", "validation", "Document name is required", NoDoc)
    ELSE IF ~HasValue(parameters, "documentContent")
    THEN Raise(Stores, "ValueError", "validation", "Document content is required", NoDoc)
    ELSE
    LET documentName == ValueOf(parameters, "documentName")
        documentContent == ValueOf(parameters, "documentContent")
        document_id == Uuid(issued + 1)
        document_item == InlineItem(parameters, document_id, now)
        doc == [documentId |-> document_id, locator |-> <<>>]
        drawn == [Stores EXCEPT !.issued = @ + 1, !.now = @ + 1]
    IN IF ~put_ok
       THEN Raise([drawn EXCEPT !.documents_table = FailedWrite(@, document_item)],
                  "Exception", "unavailable", "put_item failed", doc)
       ELSE Return([drawn EXCEPT !.documents_table = PutItem(@, document_item)],
                   [kind |-> "saved", text |-> SavedText(documentName, document_id)],
                   doc)

\* the preview of get_document: the text shown and whether '...' follows
Preview(ok, text, more) == [ok |-> ok, text |-> text, more |-> more]

get_document_inline(parameters, read_ok) ==
    IF ~HasValue(parameters, "documentId")
    THEN Raise(Stores, "ValueError", "validation", "Document ID is required", NoDoc)
    ELSE
    LET document_id == ValueOf(parameters, "documentId")
        found == FindRecords(documents_table, document_id)
    IN IF ~read_ok
       THEN Raise(Stores, "Exception", "unavailable", "Error retrieving document", NoDoc)
       ELSE IF found = <<>>
       THEN Return(Stores, [kind |-> "not_found", documentId |-> document_id], NoDoc)
       ELSE LET document == found[1] IN
            Return(Stores,
                   [kind |-> "found",
                    documentName |-> document.documentName,
                    documentType |-> document.documentType,
                    analysisResults |-> document.analysisResults,
                    preview |-> Preview(TRUE,
                        Expand(Slice(document.documentContent, PreviewLen)),
                        StrLen(document.documentContent) > PreviewLen)],
                   [documentId |-> document.documentId, locator |-> <<>>])

\* one line of the list: the record shown
\* the entry without the file_path.exists() test: every file is marked present
ListEntryPresent(doc, exists) ==
    [documentId |-> doc.documentId, documentName |-> doc.documentName,
     documentType |-> doc.documentType, exists |-> TRUE]

ListEntry(doc, exists) ==
    [documentId |-> doc.documentId, documentName |-> doc.documentName,
     documentType |-> doc.documentType, exists |-> exists]

\* the text of list_documents for the records documents, of which shown are
\* displayed
ListBody(documents, shown) ==
    IF documents = <<>>
    THEN [kind |-> "none"]
    ELSE [kind |-> "list", count |-> Len(documents), entries |-> shown]

\* list_documents without 'if document_type:': the scan is listed unfiltered
list_documents_unfiltered(parameters, read_ok) ==
    LET documents == documents_table
        shown == SubSeq(documents, 1, Min(DisplayLimit, Len(documents)))
    IN IF ~read_ok
       THEN Raise(Stores, "Exception", "unavailable", "Error listing documents", NoDoc)
       ELSE Return(Stores,
                   ListBody(documents, [i \in 1..Len(shown) |-> ListEntry(shown[i], TRUE)]),
                   NoDoc)

list_documents_inline(parameters, read_ok) ==
    LET scanned == documents_table
        documents ==
            IF HasValue(parameters, "documentType")
            THEN SelectSeq(scanned,
                     LAMBDA d : d.documentType = ValueOf(parameters, "documentType"))
            ELSE scanned
        shown == SubSeq(documents, 1, Min(DisplayLimit, Len(documents)))
    IN IF ~read_ok
       THEN Raise(Stores, "Exception", "unavailable", "Error listing documents", NoDoc)
       ELSE Return(Stores,
                   ListBody(documents, [i \in 1..Len(shown) |-> ListEntry(shown[i], TRUE)]),
                   NoDoc)

(***************************************************************************)
(* document_storage_efs.py: content in a file under EFS_MOUNT_PATH.        *)
(***************************************************************************)
\* lines 74-90: the bytes written for a str content: the base64 decoding
\* when b64decode returns, else the UTF-8 encoding of the text
FileData(documentContent) ==
    LET decoded == b64decode(documentContent)
    IN IF decoded.ok THEN RawBytes(decoded.bytes) ELSE EncodedBytes(documentContent)

\* the directory reached from the directories stack by one component of a
\* path: '' and '.' stay, '..' goes to the parent (from EFS_MOUNT_PATH, out of
\* it), a name goes into the directory of that name
Enter(stack, component) ==
    IF component \in {<<>>, <<".">>}
    THEN stack
    ELSE IF component # <<"..">>
    THEN Append(stack, component)
    ELSE IF stack = <<>> \/ stack[Len(stack)] = <<"..">>
    THEN Append(stack, component)
    ELSE SubSeq(stack, 1, Len(stack) - 1)

RECURSIVE Resolve(_, _, _)
\* the file that open() reaches for the path stack / component + rest, where
\* the token "/" separates the components: the directories from
\* EFS_MOUNT_PATH down to it, and its name
Resolve(stack, component, rest) ==
    IF rest = <<>>
    THEN [dirs |-> stack, name |-> component]
    ELSE IF rest[1] = "/"
    THEN Resolve(Enter(stack, component), <<>>, Tail(rest))
    ELSE Resolve(stack, Append(component, rest[1]), Tail(rest))

RECURSIVE Join(_)
\* the directories written as one path, relative to EFS_MOUNT_PATH
Join(stack) ==
    IF stack = <<>> THEN <<>>
    ELSE IF Len(stack) = 1 THEN stack[1]
    ELSE stack[1] \o <<"/">> \o Join(Tail(stack))

\* document_dir / documentName, as open(), exists() and unlink() resolve it:
\* the directory of the file, relative to EFS_MOUNT_PATH, and its name
FilePath(document_id, documentName) ==
    [dir |-> Join(Resolve(<<document_id>>, <<>>, documentName).dirs),
     name |-> Resolve(<<document_id>>, <<>>, documentName).name]

\* the directory of a path exists: EFS_MOUNT_PATH, a directory made in it
\* (directories outside it are taken to exist)
DirExists(dirs, dir) == dir = <<>> \/ dir \in dirs \/ dir[1] = ".."

\* file_path.exists()
FileExists(files, file_path) == file_path \in DOMAIN files

\* file_path.unlink()
Unlink(files, file_path) == [q \in DOMAIN files \ {file_path} |-> files[q]]

\* lines 121-122: if file_path.exists(): file_path.unlink()
UnlinkIfExists(st, file_path) ==
    IF FileExists(st.efs_files, file_path)
    THEN [st EXCEPT !.efs_files = Unlink(@, file_path)]
    ELSE st

\* lines 123-124: if document_dir.exists() and not any(document_dir.iterdir()):
\* document_dir.rmdir()
RemoveIfEmpty(st, document_dir) ==
    IF /\ document_dir \in st.efs_dirs
       /\ \A q \in DOMAIN st.efs_files : q.dir # document_dir
    THEN [st EXCEPT !.efs_dirs = @ \ {document_dir}]
    ELSE st

\* lines 120-124: remove the file if it exists, then the directory if it is
\* empty
Cleanup(st, document_dir, file_path) ==
    RemoveIfEmpty(UnlinkIfExists(st, file_path), document_dir)

\* lines 96-106: document_item
EfsItem(parameters, document_id, file_path, file_size, date) ==
    [documentId |-> document_id,
     documentName |-> ValueOf(parameters, "documentName"),
     documentType |-> OrDefault(parameters, "documentType", DefaultType),
     filePath |-> file_path,
     uploadDate |-> date,
     lastModified |-> date,
     analysisResults |-> OrDefault(parameters, "analysisResults", DefaultAnalysis),
     status |-> StatusActive,
     fileSize |-> file_size]

\* outcome: "ok"; "content_fail": every open() of the file raises;
\* "metadata_fail": put_item raises
save_document_efs(parameters, outcome) ==
    IF ~save_valid(parameters)
    THEN Raise(Stores, "ValueError", "validation",
               "Document name and content are required", NoDoc)
    ELSE
    LET documentName == ValueOf(parameters, "documentName")
        documentContent == ValueOf(parameters, "documentContent")
        document_id == Uuid(issued + 1)
        file_path == FilePath(document_id, documentName)
        made == [Stores EXCEPT !.issued = @ + 1, !.now = @ + 1,
                               !.efs_dirs = @ \cup {document_id}]
        written == [made EXCEPT !.efs_files = (file_path :> FileData(documentContent)) @@ @]
        document_item ==
            EfsItem(parameters, document_id, file_path,
                    BytesLen(written.efs_files[file_path]), now)
        doc == [documentId |-> document_id, locator |-> file_path]
    IN IF outcome = "content_fail" \/ ~DirExists(made.efs_dirs, file_path.dir)
       THEN Raise(Cleanup(made, document_id, file_path), "Exception", "unavailable",
                  "Error saving document", NoDoc)
       ELSE IF outcome = "metadata_fail"
       THEN Raise(Cleanup([written EXCEPT
                              !.documents_table = FailedWrite(@, document_item)],
                          document_id, file_path),
                  "Exception", "unavailable", "Error saving document", doc)
       ELSE Return([written EXCEPT !.documents_table = PutItem(@, document_item)],
                   [kind |-> "saved", text |-> SavedText(documentName, document_id)],
                   doc)

get_document_efs(parameters, read_ok) ==
    IF ~HasValue(parameters, "documentId")
    THEN Raise(Stores, "ValueError", "validation", "Document ID is required", NoDoc)
    ELSE
    LET document_id == ValueOf(parameters, "documentId")
        found == FindRecords(documents_table, document_id)
    IN IF ~read_ok
       THEN Raise(Stores, "Exception", "unavailable", "Error retrieving document", NoDoc)
       ELSE IF found = <<>>
       THEN Return(Stores, [kind |-> "not_found", documentId |-> document_id], NoDoc)
       ELSE LET document == found[1]
                file_path == document.filePath
                doc == [documentId |-> document.documentId, locator |-> file_path]
            IN IF ~FileExists(efs_files, file_path)
               THEN Return(Stores, [kind |-> "file_missing", filePath |-> file_path], doc)
               ELSE LET read == ReadText(efs_files[file_path], PreviewLen) IN
                    Return(Stores,
                           [kind |-> "found",
                            documentName |-> document.documentName,
                            documentType |-> document.documentType,
                            analysisResults |-> document.analysisResults,
                            preview |-> Preview(read.ok, read.text,
                                                document.fileSize > PreviewLen)],
                           doc)

list_documents_efs(parameters, read_ok) ==
    LET documents ==
            SelectSeq(documents_table,
                LAMBDA d : /\ d.status = "active"
                           /\ (HasValue(parameters, "documentType")
                                  => d.documentType = ValueOf(parameters, "documentType")))
        shown == SubSeq(documents, 1, Min(DisplayLimit, Len(documents)))
    IN IF ~read_ok
       THEN Raise(Stores, "Exception", "unavailable", "Error listing documents", NoDoc)
       ELSE Return(Stores,
                   ListBody(documents,
                       [i \in 1..Len(shown) |->
                           ListEntry(shown[i], FileExists(efs_files, shown[i].filePath))]),
                   NoDoc)

(***************************************************************************)
(* document_storage_mongodb.py: content in GridFS.                         *)
(***************************************************************************)
\* get_mongodb_connection(): the cached client, or the first of the three
\* connection methods whose ping succeeds (first_ok; 0 when none does, and
\* the function raises)
get_mongodb_connection(first_ok) == IF client # 0 THEN client ELSE first_ok

\* the number of entries of connection_methods
MethodCount == 3

\* what the try of one connection method does: all of it succeeds,
\* MongoClient(...) raises, the ping raises, gridfs.GridFS(db) raises
MethodOutcomes == {"ok", "connect_fail", "ping_fail", "gridfs_fail"}

RECURSIVE TryAllMethods(_, _, _)
\* the loop without its break: every method is tried
TryAllMethods(conn, m, works) ==
    IF m > MethodCount
    THEN conn
    ELSE IF works[m] = "ok"
    THEN TryAllMethods([conn EXCEPT !.attempts = Append(@, m),
                                   !.client = m, !.db = m, !.fs = m], m + 1, works)
    ELSE IF works[m] = "gridfs_fail"
    THEN TryAllMethods([conn EXCEPT !.attempts = Append(@, m), !.client = 0, !.db = m],
                       m + 1, works)
    ELSE TryAllMethods([conn EXCEPT !.attempts = Append(@, m), !.client = 0],
                       m + 1, works)

RECURSIVE TryMethods(_, _, _)
\* lines 65-81: for method in connection_methods, from method m on.  conn
\* holds the globals client, db and fs and the methods tried so far;
\* works[m] is what the try of method m does
TryMethods(conn, m, works) ==
    IF m > MethodCount
    THEN conn
    ELSE IF works[m] = "ok"
    THEN [conn EXCEPT !.attempts = Append(@, m), !.client = m, !.db = m, !.fs = m]
    ELSE IF works[m] = "gridfs_fail"
    THEN TryMethods([conn EXCEPT !.attempts = Append(@, m), !.client = 0, !.db = m],
                    m + 1, works)
    ELSE TryMethods([conn EXCEPT !.attempts = Append(@, m), !.client = 0],
                    m + 1, works)

\* lines 20-86: the globals after get_mongodb_connection(), the methods it
\* tried, and whether it raised
Connect(works) ==
    IF client # 0
    THEN [client |-> client, db |-> db, fs |-> fs, attempts |-> <<>>]
    ELSE TryMethods([client |-> client, db |-> db, fs |-> fs, attempts |-> <<>>],
                    1, works)

\* the tries of a call in which method first_ok is the first to succeed (0:
\* none does)
Works(first_ok) ==
    [m \in 1..MethodCount |->
        IF first_ok # 0 /\ m >= first_ok THEN "ok" ELSE "ping_fail"]

\* lines 153-163: the file that fs.put stores
Blob(parameters, document_id, date) ==
    [data |-> FileData(ValueOf(parameters, "documentContent")),
     filename |-> ValueOf(parameters, "documentName"),
     metadata |->
        [documentId |-> document_id,
         documentType |-> OrDefault(parameters, "documentType", DefaultType),
         uploadDate |-> date,
         analysisResults |-> OrDefault(parameters, "analysisResults", DefaultAnalysis),
         status |-> "active"]]

\* lines 166-175: the document that insert_one stores
MongoDocument(parameters, document_id, file_id, date) ==
    [documentId |-> document_id,
     documentName |-> ValueOf(parameters, "documentName"),
     documentType |-> OrDefault(parameters, "documentType", DefaultType),
     gridfsFileId |-> file_id,
     uploadDate |-> date,
     analysisResults |-> OrDefault(parameters, "analysisResults", DefaultAnalysis),
     status |-> StatusActive,
     fileSize |-> BytesLen(FileData(ValueOf(parameters, "documentContent")))]

\* outcome: "ok"; "content_fail": fs.put raises; "metadata_fail": insert_one
\* raises
save_document_mongodb(parameters, outcome) ==
    IF ~save_valid(parameters)
    THEN Raise(Stores, "ValueError", "validation",
               "Document name and content are required", NoDoc)
    ELSE
    LET documentName == ValueOf(parameters, "documentName")
        documentContent == ValueOf(parameters, "documentContent")
        document_id == Uuid(issued + 1)
        file_data == FileData(documentContent)
        file_id == ObjectId(issued + 1)
        drawn == [Stores EXCEPT !.issued = @ + 1, !.now = @ + 1]
        blob == Blob(parameters, document_id, now)
        put == [drawn EXCEPT !.gridfs = (file_id :> blob) @@ @]
        document == MongoDocument(parameters, document_id, file_id, now)
        doc == [documentId |-> document_id, locator |-> file_id]
    IN IF outcome = "content_fail"
       THEN Raise(drawn, "Exception", "unavailable", "fs.put failed", NoDoc)
       ELSE IF outcome = "metadata_fail"
       THEN Raise([put EXCEPT !.documents_table = FailedWrite(@, document)],
                  "Exception", "unavailable", "insert_one failed", doc)
       ELSE Return([put EXCEPT !.documents_table = InsertOne(@, document)],
                   [kind |-> "saved", text |-> SavedText(documentName, document_id)],
                   doc)

get_document_mongodb(parameters, read_ok) ==
    IF ~HasValue(parameters, "documentId")
    THEN Raise(Stores, "ValueError", "validation", "Document ID is required", NoDoc)
    ELSE
    LET document_id == ValueOf(parameters, "documentId")
        found == FindRecords(documents_table, document_id)
    IN IF ~read_ok
       THEN Raise(Stores, "Exception", "unavailable", "Error retrieving document", NoDoc)
       ELSE IF found = <<>>
       THEN Return(Stores, [kind |-> "not_found", documentId |-> document_id], NoDoc)
       ELSE LET document == found[1]
                doc == [documentId |-> document.documentId,
                        locator |-> document.gridfsFileId]
            IN IF document.gridfsFileId \notin DOMAIN gridfs
               THEN Raise(Stores, "Exception", "other", "Error retrieving document", doc)
               ELSE LET decoded ==
                            Utf8Decode(ReadBytes(gridfs[document.gridfsFileId].data,
                                                 PreviewLen))
                    IN Return(Stores,
                              [kind |-> "found",
                               documentName |-> document.documentName,
                               documentType |-> document.documentType,
                               analysisResults |-> document.analysisResults,
                               preview |-> Preview(decoded.ok, decoded.text,
                                                   document.fileSize > PreviewLen)],
                              doc)

\* the position at which sort('uploadDate', -1) puts d among the sorted s
RECURSIVE InsertByDateDesc(_, _)
InsertByDateDesc(d, s) ==
    IF s = <<>> THEN <<d>>
    ELSE IF s[1].uploadDate <= d.uploadDate THEN <<d>> \o s
    ELSE <<s[1]>> \o InsertByDateDesc(d, Tail(s))

\* find(query) without .sort: the documents in the order of the collection
Unsorted(s) == s

\* .sort('uploadDate', -1)
RECURSIVE SortByDateDesc(_)
SortByDateDesc(s) ==
    IF s = <<>> THEN <<>> ELSE InsertByDateDesc(s[1], SortByDateDesc(Tail(s)))

list_documents_mongodb(parameters, read_ok) ==
    LET matching ==
            SelectSeq(documents_table,
                LAMBDA d : /\ d.status = "active"
                           /\ (HasValue(parameters, "documentType")
                                  => d.documentType = ValueOf(parameters, "documentType")))
        sorted == SortByDateDesc(matching)
        documents == SubSeq(sorted, 1, Min(DisplayLimit, Len(sorted)))
    IN IF ~read_ok
       THEN Raise(Stores, "Exception", "unavailable", "Error listing documents", NoDoc)
       ELSE Return(Stores,
                   ListBody(documents,
                       [i \in 1..Len(documents) |-> ListEntry(documents[i], TRUE)]),
                   NoDoc)

(***************************************************************************)
(* email_handler.py.                                                       *)
(***************************************************************************)
Recipient == <<"client@example.com">>

EmailParameters ==
    {<<>>, <<Param("recipientEmail", <<>>)>>, <<Param("recipientEmail", Recipient)>>,
     <<Param("recipientEmail", Recipient), Param("subject", <<"Re: lease">>)>>}

\* lines 33-128 of lambda_handler: validation, then ses.send_email
send_email(parameters, ses_ok) ==
    IF Malformed(parameters)
    THEN Raise(Stores, "KeyError", "malformed", "'name'", NoDoc)
    ELSE IF ~HasValue(parameters, "recipientEmail")
    THEN Raise(Stores, "ValueError", "validation", "Recipient email is required", NoDoc)
    ELSE IF ~ses_ok
    THEN Raise(Stores, "Exception", "other", "send_email failed", NoDoc)
    ELSE Return(Stores,
                [kind |-> "sent", to |-> ValueOf(parameters, "recipientEmail")],
                NoDoc)

(***************************************************************************)
(* todolist.py: every event adds one item to the table toDoList.           *)
(***************************************************************************)
\* f"todo-{timestamp}-{uuid4()[:8]}"
TodoId(n) == <<"todo-" \o ToString(n)>>

\* lines 32-45: the item
TodoItem(parameters) ==
    [id |-> TodoId(issued + 1),
     task |-> OrDefault(parameters, "taskDescription", <<"No description provided">>),
     emailAddress |-> OrDefault(parameters, "emailAddress", <<"default@example.com">>),
     taskDescription |->
         OrDefault(parameters, "taskDescription", <<"No description provided">>),
     emailContext |-> OrDefault(parameters, "emailContext", <<"No context provided">>),
     documentTitle |-> OrDefault(parameters, "documentTitle", <<"No document specified">>),
     status |-> OrDefault(parameters, "status", <<"pending">>),
     completed |-> FALSE,
     createdAt |-> now + 1,
     dueDate |-> now + 1 + 7]

\* lines 16-62 of lambda_handler: the extraction loop, the item, put_item
todolist(parameters, put_ok) ==
    LET drawn == [Stores EXCEPT !.issued = @ + 1, !.now = @ + 1]
    IN IF Malformed(parameters)
       THEN Raise(Stores, "KeyError", "malformed", "'name'", NoDoc)
       ELSE IF ~put_ok
       THEN Raise(drawn, "Exception", "unavailable", "put_item failed", NoDoc)
       ELSE Return([drawn EXCEPT !.toDoList = Append(@, TodoItem(parameters))],
                   [kind |-> "text", text |-> <<"Item added to DynamoDB">>], NoDoc)

(***************************************************************************)
(* legal_analyzer.py.                                                      *)
(***************************************************************************)
\* line 65: document_text[:1000] + '...' if len(document_text) > 1000
ExcerptLen == 1000

Excerpt(document_text) ==
    IF StrLen(document_text) > ExcerptLen
    THEN Slice(document_text, ExcerptLen) \o <<[c |-> 46, n |-> 3]>>
    ELSE document_text

\* lines 35-85
analyze_document(parameters, put_ok) ==
    LET drawn == [Stores EXCEPT !.issued = @ + 1, !.now = @ + 1]
        analysis_item ==
            [analysisId |-> Uuid(issued + 1),
             documentTitle |-> OrDefault(parameters, "documentTitle", <<"Untitled Document">>),
             analysisType |-> OrDefault(parameters, "analysisType", <<"comprehensive">>),
             analysisDate |-> now + 1,
             documentText |-> Excerpt(ValueOf(parameters, "documentText")),
             status |-> "completed"]
    IN IF Malformed(parameters)
       THEN Raise(Stores, "KeyError", "malformed", "'name'", NoDoc)
       ELSE IF ~HasValue(parameters, "documentText")
       THEN Raise(Stores, "ValueError", "validation",
                  "Document text is required for analysis", NoDoc)
       ELSE IF ~put_ok
       THEN Raise(drawn, "Exception", "unavailable", "put_item failed", NoDoc)
       ELSE Return([drawn EXCEPT !.analysis_table =
                        Append(SelectSeq(@, LAMBDA a :
                                   a.analysisId # analysis_item.analysisId),
                               analysis_item)],
                   [kind |-> "analysis", analysisId |-> analysis_item.analysisId],
                   NoDoc)

\* lines 160-194
generate_risk_report(parameters, read_ok) ==
    LET found == SelectSeq(analysis_table,
                           LAMBDA a : a.analysisId = ValueOf(parameters, "documentId"))
    IN IF Malformed(parameters)
       THEN Raise(Stores, "KeyError", "malformed", "'name'", NoDoc)
       ELSE IF ~HasValue(parameters, "documentId")
       THEN Raise(Stores, "ValueError", "validation",
                  "Document ID is required for risk report", NoDoc)
       ELSE IF ~read_ok
       THEN Raise(Stores, "Exception", "unavailable", "Error generating risk report",
                  NoDoc)
       ELSE IF found = <<>>
       THEN Return(Stores, [kind |-> "not_found",
                            documentId |-> ValueOf(parameters, "documentId")], NoDoc)
       ELSE Return(Stores, [kind |-> "report", analysisId |-> found[1].analysisId],
                   NoDoc)

\* lines 196-206: reads no parameter and writes nothing
save_analysis_results(parameters) ==
    Return(Stores, [kind |-> "text", text |-> <<"Analysis results saved successfully">>],
           NoDoc)

\* the if/elif chain on event['function'] of legal_analyzer.lambda_handler
DispatchAnalyzer(function, parameters, outcome) ==
    IF function = "analyzeDocument"
    THEN analyze_document(parameters, outcome # "metadata_fail")
    ELSE IF function = "generateRiskReport"
    THEN generate_risk_report(parameters, outcome # "read_fail")
    ELSE IF function = "saveAnalysisResults"
    THEN save_analysis_results(parameters)
    ELSE Raise(Stores, "ValueError", "other", "Unknown function", NoDoc)

(***************************************************************************)
(* lambda_handler: the dispatch and the handling of exceptions.            *)
(***************************************************************************)
\* the if/elif chain on event['function'] of the three document handlers
Dispatch(function, parameters, outcome) ==
    IF function \in {"saveDocument", "getDocument", "listDocuments"}
       /\ Malformed(parameters)
    THEN Raise(Stores, "KeyError", "malformed", "'name'", NoDoc)
    ELSE IF function = "saveDocument"
    THEN CASE handler = "document_storage" ->
                save_document_inline(parameters, outcome # "metadata_fail")
           [] handler = "document_storage_efs" -> save_document_efs(parameters, outcome)
           [] OTHER -> save_document_mongodb(parameters, outcome)
    ELSE IF function = "getDocument"
    THEN CASE handler = "document_storage" ->
                get_document_inline(parameters, outcome # "read_fail")
           [] handler = "document_storage_efs" ->
                get_document_efs(parameters, outcome # "read_fail")
           [] OTHER -> get_document_mongodb(parameters, outcome # "read_fail")
    ELSE IF function = "listDocuments"
    THEN CASE handler = "document_storage" ->
                list_documents_inline(parameters, outcome # "read_fail")
           [] handler = "document_storage_efs" ->
                list_documents_efs(parameters, outcome # "read_fail")
           [] OTHER -> list_documents_mongodb(parameters, outcome # "read_fail")
    ELSE Raise(Stores, "ValueError", "other", "Unknown function", NoDoc)

\* the except clauses of a handler's lambda_handler, in their order
ExceptClauses ==
    CASE handler = "email_handler" ->
            <<[class |-> "ValueError", status |-> 400],     \* BAD_REQUEST
              [class |-> "Exception", status |-> 500]>>     \* INTERNAL_SERVER_ERROR
      [] handler = "todolist" ->
            <<[class |-> "KeyError", status |-> 400],
              [class |-> "Exception", status |-> 500]>>
      [] OTHER -> <<[class |-> "Exception", status |-> 500]>>

\* a clause that matches the named class only, not its subclasses
CatchesExactly(clause, exc) == clause.class = exc

\* except <class>: matches the class and its subclasses (ValueError and
\* KeyError are subclasses of Exception)
Catches(clause, exc) == clause.class = "Exception" \/ clause.class = exc

\* the clauses that match an exception of class exc
Handling(exc) == SelectSeq(ExceptClauses, LAMBDA clause : Catches(clause, exc))

\* the status of the {statusCode, body} pair that the first matching clause
\* returns
StatusOf(exc) == Handling(exc)[1].status

\* the connection's failure is not looked at
Unrefused(first_ok) == FALSE

\* get_mongodb_connection() raises: lambda_handler answers 503 and calls no
\* function
Refused(first_ok) ==
    handler = "document_storage_mongodb" /\ get_mongodb_connection(first_ok) = 0

\* the statements of lambda_handler's try after the header of the event is
\* read
Body(function, parameters, outcome) ==
    CASE handler = "email_handler" -> send_email(parameters, outcome = "ok")
      [] handler = "todolist" -> todolist(parameters, outcome # "metadata_fail")
      [] handler = "legal_analyzer" -> DispatchAnalyzer(function, parameters, outcome)
      [] OTHER -> Dispatch(function, parameters, outcome)

\* what the body of lambda_handler's try does with the event: the outcome of
\* the function it calls
HandlerResult(event, outcome, first_ok) ==
    IF Refused(first_ok)
    THEN Raise(Stores, "Exception", "unavailable", "Database connection failed", NoDoc)
    ELSE IF ~event.actionGroup.present
    THEN Raise(Stores, "KeyError", "malformed", "'actionGroup'", NoDoc)
    ELSE IF ~event.function.present
    THEN Raise(Stores, "KeyError", "malformed", "'function'", NoDoc)
    ELSE Body(event.function.value, Get(event.parameters, <<>>), outcome)

\* the request that a response answers
Request(event) ==
    [event |-> event, function |-> Get(event.function, ""),
     parameters |-> Get(event.parameters, <<>>)]

\* what lambda_handler returns for the outcome r
HandlerResponse(event, first_ok, r) ==
    Request(event) @@
    (IF Refused(first_ok)
     THEN ErrorPair(503, r)     \* SERVICE_UNAVAILABLE
     ELSE IF ~r.raised
     THEN create_response(event.actionGroup.value, event.function.value,
                          Get(event.messageVersion, "1"), r)
     ELSE IF Handling(r.exc) = <<>>
     THEN Escaped(r)
     ELSE ErrorPair(StatusOf(r.exc), r))

\* test_document_storage.py, run_all_tests: response_body.split("ID: ")[1],
\* the text between the first "ID: " and the next one (or the end)
RECURSIVE UpTo(_, _)
UpTo(text, token) ==
    IF text = <<>> \/ text[1] = token THEN <<>>
    ELSE <<text[1]>> \o UpTo(Tail(text), token)

RECURSIVE After(_, _)
After(text, token) ==
    IF text = <<>> THEN <<>>
    ELSE IF text[1] = token THEN Tail(text)
    ELSE After(Tail(text), token)

ParseId(text) == UpTo(After(text, "ID: "), "ID: ")

\* the event is a saveDocument request to a document handler
SavesDocument(event) ==
    /\ handler \in DocumentHandlers
    /\ event.function.present
    /\ event.function.value = "saveDocument"
    /\ event.parameters.present

\* the state that a request with outcome r leaves
Respond(event, first_ok, r) ==
    /\ handler' = handler
    /\ client' = IF handler = "document_storage_mongodb"
                 THEN get_mongodb_connection(first_ok)
                 ELSE client
    /\ db' = IF handler = "document_storage_mongodb"
             THEN Connect(Works(first_ok)).db
             ELSE db
    /\ fs' = IF handler = "document_storage_mongodb"
             THEN Connect(Works(first_ok)).fs
             ELSE fs
    /\ efs_root' = (efs_root \/ handler = "document_storage_efs")
    /\ documents_table' = r.st.documents_table
    /\ efs_dirs' = r.st.efs_dirs
    /\ efs_files' = r.st.efs_files
    /\ gridfs' = r.st.gridfs
    /\ toDoList' = r.st.toDoList
    /\ analysis_table' = r.st.analysis_table
    /\ issued' = r.st.issued
    /\ now' = r.st.now
    /\ response' = HandlerResponse(event, first_ok, r)
    /\ UNCHANGED agentVars
    /\ saveLog' = IF SavesDocument(event) /\ ~r.raised
                  THEN Append(saveLog,
                              [parameters |-> event.parameters.value,
                               text |-> r.body.text,
                               documentId |-> r.doc.documentId])
                  ELSE saveLog
    /\ failedSaves' = IF SavesDocument(event) /\ r.raised /\ r.doc # NoDoc
                      THEN failedSaves \cup {r.doc}
                      ELSE failedSaves

\* one invocation of lambda_handler
lambda_handler(event, outcome, first_ok) ==
    /\ Respond(event, first_ok, HandlerResult(event, outcome, first_ok))
    /\ inflight' = inflight

\* an invocation with an event that has every key, as the events of
\* test_document_storage.py have
LambdaHandler(function, parameters, outcome, first_ok) ==
    lambda_handler(Event(Present(ActionGroup), Present(function),
                         Present(MessageVersion), Present(parameters)),
                   outcome, first_ok)

\* the connection methods that may be the first to succeed on this request
FirstOk == IF handler = "document_storage_mongodb" /\ client = 0 THEN 0..3 ELSE {client}

\* the saveDocument requests during which a call to a store is made to fail:
\* one whose content is written as text and one whose content is written as
\* decoded bytes
FaultedSaves ==
    {<<Param("documentName", NameA), Param("documentContent", c),
       Param("documentType", TypeContract)>> : c \in {ContentPlain, ContentTest}}

\* what the store calls of save_document do during a request: all succeed
\* ("ok"), the content write raises, the metadata write raises
SaveOutcomes(parameters) ==
    IF parameters \notin FaultedSaves
    THEN {"ok"}
    ELSE IF handler = "document_storage"
    THEN {"ok", "metadata_fail"}
    ELSE {"ok", "content_fail", "metadata_fail"}

GetParameters ==
    {<<>>, <<Param("documentId", <<>>)>>, <<Param("documentId", <<"nonexistent-id">>)>>}
    \cup {<<Param("documentId", Uuid(i))>> : i \in 1..issued}
    \cup {<<Param("documentId", ParseId(saveLog[j].text))>> : j \in 1..Len(saveLog)}

ListParameters ==
    {<<>>} \cup {<<Param("documentType", t)>> : t \in {<<>>, TypeContract, TypeMemo}}

SaveDocument ==
    /\ handler \in DocumentHandlers
    /\ \E parameters \in SaveParameters, first_ok \in FirstOk :
          /\ save_valid(parameters) => issued < MaxSaves
          /\ \E outcome \in SaveOutcomes(parameters) :
                LambdaHandler("saveDocument", parameters, outcome, first_ok)

GetDocument ==
    /\ handler \in DocumentHandlers
    /\ \E parameters \in GetParameters, outcome \in {"ok", "read_fail"}, first_ok \in FirstOk :
          LambdaHandler("getDocument", parameters, outcome, first_ok)

ListDocuments ==
    /\ handler \in DocumentHandlers
    /\ \E parameters \in ListParameters, outcome \in {"ok", "read_fail"}, first_ok \in FirstOk :
          LambdaHandler("listDocuments", parameters, outcome, first_ok)

UnknownFunction ==
    /\ handler \in DocumentHandlers
    /\ \E first_ok \in FirstOk : LambdaHandler("deleteDocument", <<>>, "ok", first_ok)

SendEmail ==
    /\ handler = "email_handler"
    /\ \E parameters \in EmailParameters, outcome \in {"ok", "send_fail"} :
          LambdaHandler("sendEmail", parameters, outcome, 0)

\* the invocations of lambda_handler that the runtime runs at one time
Invocations == 1..MaxInvocations

\* an invocation that is not in save_document
Idle ==
    [pc |-> "idle", parameters |-> <<>>, document_id |-> <<>>,
     file_path |-> [dir |-> <<>>, name |-> <<>>], file_id |-> <<>>]

\* no method of LegalAgentInterface has been called
NoCall == [method |-> "none"]

NoResponse ==
    [shape |-> "none", statusCode |-> 0, event |-> Event(Absent, Absent, Absent, Absent),
     function |-> "", parameters |-> <<>>, envelope |-> NoEnvelope,
     body |-> [kind |-> "none"], cause |-> "none", doc |-> NoDoc]

Init ==
    /\ handler \in Handlers
    /\ documents_table = <<>>
    /\ efs_root = FALSE
    /\ efs_dirs = {}
    /\ efs_files = <<>>
    /\ gridfs = <<>>
    /\ toDoList = <<>>
    /\ analysis_table = <<>>
    /\ client = 0
    /\ db = 0
    /\ fs = 0
    /\ issued = 0
    /\ now = 0
    /\ inflight = [p \in Invocations |-> Idle]
    /\ response = NoResponse
    /\ saveLog = <<>>
    /\ failedSaves = {}
    /\ pc = "start"
    /\ running = TRUE
    /\ stdin = <<>>
    /\ stdin_open = TRUE
    /\ stdout = <<>>
    /\ exit_status = Absent
    /\ line = Absent
    /\ answer = Absent
    /\ current_session_id = Absent
    /\ returned = NoCall
    /\ readLog = <<>>
    /\ agentCalls = <<>>

Next ==
    \/ SaveDocument
    \/ GetDocument
    \/ ListDocuments
    \/ UnknownFunction
    \/ SendEmail

Spec == Init /\ [][Next]_vars

(***************************************************************************)
(* A store with more documents than listDocuments displays: saves of small *)
(* documents of two types, and lists.                                      *)
(***************************************************************************)
ListedSaves ==
    {<<Param("documentName", NameA), Param("documentContent", ContentPlain),
       Param("documentType", t)>> : t \in {TypeContract, TypeMemo}}

SaveListed ==
    /\ handler \in DocumentHandlers
    /\ issued < MaxListed
    /\ \E parameters \in ListedSaves, first_ok \in FirstOk :
          /\ ValueOf(parameters, "documentType") = TypeMemo =>
                Len(SelectSeq(documents_table,
                              LAMBDA d : d.documentType = TypeMemo)) < MaxMemos
          /\ LambdaHandler("saveDocument", parameters, "ok", first_ok)

NextList == SaveListed \/ ListDocuments

SpecList == Init /\ [][NextList]_vars

(***************************************************************************)
(* The events of any shape that the agent runtime can deliver: keys of the *)
(* event absent, function names that no handler has, parameter lists with  *)
(* repeated names, with names no function reads, and with entries that     *)
(* have no name.                                                           *)
(***************************************************************************)
\* the actionGroup and messageVersion of an event
Headers ==
    {[actionGroup |-> Present(ActionGroup), messageVersion |-> v] :
        v \in {Absent, Present("1"), Present("2")}}
    \cup {[actionGroup |-> Present("legal_actions"), messageVersion |-> Present("2")],
          [actionGroup |-> Absent, messageVersion |-> Present("1")]}

\* the events that make the calls (pairs of a function and a parameters
\* list) under the header of the tests, and the events that make the probes
\* under every header, without 'function' and without 'parameters'
Requests(calls, probes) ==
    {Event(Present(ActionGroup), Present(c[1]), Present(MessageVersion), Present(c[2])) :
        c \in calls}
    \cup {Event(h.actionGroup, Present(c[1]), h.messageVersion, Present(c[2])) :
            h \in Headers, c \in probes}
    \cup {Event(Present(ActionGroup), Absent, Present("1"), Present(c[2])) : c \in probes}
    \cup {Event(Present(ActionGroup), Present(c[1]), Present("1"), Absent) : c \in probes}

Extra == Param("priority", <<"high">>)

DocumentCalls ==
    ({"saveDocument"} \X
        {<<>>,
         <<Nameless(NameA)>>,
         <<Param("documentName", NameA), Param("documentContent", ContentPlain)>>,
         <<Param("documentName", NameA), Param("documentName", NameWithId),
           Param("documentContent", ContentPlain),
           Param("documentType", TypeContract), Param("documentType", TypeMemo)>>,
         <<Param("documentName", NameA), Extra, Param("documentContent", ContentPlain)>>,
         <<Param("documentName", NameA), Param("documentName", <<>>),
           Param("documentContent", ContentPlain)>>})
    \cup ({"getDocument"} \X
        {<<>>,
         <<Nameless(Uuid(1))>>,
         <<Param("documentId", Uuid(1)), Param("documentId", <<"nonexistent-id">>)>>,
         <<Param("documentId", <<"nonexistent-id">>), Param("documentId", Uuid(1))>>,
         <<Param("documentId", Uuid(2)), Extra>>})
    \cup ({"listDocuments"} \X
        {<<>>,
         <<Nameless(TypeMemo)>>,
         <<Param("documentType", TypeContract), Param("documentType", TypeMemo)>>,
         <<Param("documentType", TypeMemo), Extra>>})
    \cup ({"deleteDocument"} \X {<<>>, <<Nameless(Uuid(1))>>})

DocumentProbes ==
    {<<"saveDocument",
       <<Param("documentName", NameA), Param("documentContent", ContentPlain)>>>>,
     <<"listDocuments", <<>>>>,
     <<"deleteDocument", <<>>>>}

TaskCalls ==
    {"addTask", "listTasks", "deleteDocument"} \X
        {<<>>,
         <<Nameless(<<"review">>)>>,
         <<Param("taskDescription", <<"review">>), Param("taskDescription", <<"file">>)>>,
         <<Param("status", <<"done">>), Extra>>}

TaskProbes == {<<"addTask", <<Param("taskDescription", <<"review">>)>>>>}

DocumentText == <<[c |-> 97, n |-> ExcerptLen + 1]>>

AnalyzerCalls ==
    ({"analyzeDocument"} \X
        {<<>>,
         <<Nameless(ContentPlain)>>,
         <<Param("documentText", ContentPlain)>>,
         <<Param("documentText", DocumentText), Param("documentTitle", NameA),
           Param("documentTitle", NameWithId), Extra>>})
    \cup ({"generateRiskReport"} \X
        {<<>>,
         <<Nameless(Uuid(1))>>,
         <<Param("documentId", <<"nonexistent-id">>), Param("documentId", Uuid(1))>>,
         <<Param("documentId", <<"nonexistent-id">>)>>})
    \cup ({"saveAnalysisResults", "deleteDocument"} \X {<<>>, <<Nameless(Uuid(1))>>})

AnalyzerProbes ==
    {<<"analyzeDocument", <<Param("documentText", ContentPlain)>>>>,
     <<"saveAnalysisResults", <<>>>>}

EmailCalls ==
    {"sendEmail", "deleteDocument"} \X
        (EmailParameters \cup
            {<<Nameless(Recipient)>>,
             <<Param("recipientEmail", Recipient), Param("recipientEmail", <<>>)>>})

EmailProbes == {<<"sendEmail", <<Param("recipientEmail", Recipient)>>>>}

\* the function of the event draws an id when its validation passes
Draws(event) ==
    /\ handler # "email_handler"
    /\ event.function.present
    /\ \/ handler = "todolist"
       \/ event.function.value \in {"saveDocument", "analyzeDocument"}

\* what the calls to the backing service do during a request
EventOutcomes == {"ok", "metadata_fail", "read_fail"}

\* one invocation, while ids remain to be drawn
Invoke(event, outcome, first_ok) ==
    /\ Draws(event) => issued < MaxIds
    /\ lambda_handler(event, outcome, first_ok)

InvokeDocument ==
    /\ handler \in DocumentHandlers
    /\ \E event \in Requests(DocumentCalls, DocumentProbes), outcome \in EventOutcomes,
          first_ok \in FirstOk :
          Invoke(event, outcome, first_ok)

InvokeTodolist ==
    /\ handler = "todolist"
    /\ \E event \in Requests(TaskCalls, TaskProbes), outcome \in EventOutcomes :
          Invoke(event, outcome, 0)

InvokeAnalyzer ==
    /\ handler = "legal_analyzer"
    /\ \E event \in Requests(AnalyzerCalls, AnalyzerProbes), outcome \in EventOutcomes :
          Invoke(event, outcome, 0)

InvokeEmail ==
    /\ handler = "email_handler"
    /\ \E event \in Requests(EmailCalls, EmailProbes), outcome \in EventOutcomes :
          Invoke(event, outcome, 0)

NextEvents == InvokeDocument \/ InvokeTodolist \/ InvokeAnalyzer \/ InvokeEmail

SpecEvents == Init /\ [][NextEvents]_vars

(***************************************************************************)
(* save_document statement by statement: each call to the file system, to  *)
(* GridFS and to the metadata store is a step, and the steps of two        *)
(* invocations interleave with each other and with requests to getDocument *)
(* and listDocuments.                                                      *)
(***************************************************************************)
\* a name that leads out of the document's directory into the directory of
\* the first document
NameEscape == <<"..", "/">> \o Uuid(1) \o <<"/">> \o NameA

StepParameters ==
    {<<Param("documentName", n), Param("documentContent", c)>> :
        n \in {NameA, NameEscape}, c \in {ContentPlain, ContentTest}}

\* the event of the invocation
StepEvent(parameters) ==
    Event(Present(ActionGroup), Present("saveDocument"), Present(MessageVersion),
          Present(parameters))

\* a statement of save_document that does not return: the invocation moves
\* to pc, the stores become st
Continue(p, locals, st) ==
    /\ inflight' = [inflight EXCEPT ![p] = locals]
    /\ documents_table' = st.documents_table
    /\ efs_dirs' = st.efs_dirs
    /\ efs_files' = st.efs_files
    /\ gridfs' = st.gridfs
    /\ issued' = st.issued
    /\ now' = st.now
    /\ UNCHANGED <<handler, toDoList, analysis_table, response, saveLog, failedSaves>>
    /\ UNCHANGED agentVars

\* save_document returns or raises: lambda_handler answers
Finish(p, r) ==
    /\ inflight' = [inflight EXCEPT ![p] = Idle]
    /\ Respond(StepEvent(inflight[p].parameters), client, r)

\* lines 13-16 and 63-71 (mongodb: 90, 98-101 and 136-139): the connection,
\* the header, the validation, uuid4() and document_dir.mkdir()
BeginSave(p) ==
    /\ handler \in DocumentHandlers
    /\ inflight[p].pc = "idle"
    /\ issued < MaxStepIds
    /\ \E parameters \in StepParameters, first_ok \in FirstOk :
          /\ handler = "document_storage_mongodb" => first_ok # 0
          /\ client' = IF handler = "document_storage_mongodb"
                       THEN get_mongodb_connection(first_ok)
                       ELSE client
          /\ db' = IF handler = "document_storage_mongodb"
                   THEN Connect(Works(first_ok)).db
                   ELSE db
          /\ fs' = IF handler = "document_storage_mongodb"
                   THEN Connect(Works(first_ok)).fs
                   ELSE fs
          /\ efs_root' = (efs_root \/ handler = "document_storage_efs")
          /\ Continue(p,
                [pc |-> IF handler = "document_storage" THEN "metadata" ELSE "write",
                 parameters |-> parameters,
                 document_id |-> Uuid(issued + 1),
                 file_path |-> IF handler = "document_storage_efs"
                               THEN FilePath(Uuid(issued + 1),
                                             ValueOf(parameters, "documentName"))
                               ELSE Idle.file_path,
                 file_id |-> <<>>],
                [Stores EXCEPT !.issued = @ + 1, !.now = @ + 1,
                               !.efs_dirs = IF handler = "document_storage_efs"
                                            THEN @ \cup {Uuid(issued + 1)}
                                            ELSE @])

\* efs lines 73-90: the file is written, or open() raises; mongodb lines
\* 153-163: fs.put stores the file, or raises
WriteContent(p) ==
    /\ inflight[p].pc = "write"
    /\ UNCHANGED <<client, db, fs, efs_root>>
    /\ \E write_ok \in BOOLEAN :
          IF handler = "document_storage_efs"
          THEN IF write_ok /\ DirExists(efs_dirs, inflight[p].file_path.dir)
               THEN Continue(p, [inflight[p] EXCEPT !.pc = "metadata"],
                        [Stores EXCEPT !.efs_files =
                            (inflight[p].file_path :>
                                FileData(ValueOf(inflight[p].parameters,
                                                 "documentContent"))) @@ @])
               ELSE Continue(p, [inflight[p] EXCEPT !.pc = "unlink"], Stores)
          ELSE IF write_ok
               THEN Continue(p, [inflight[p] EXCEPT !.pc = "metadata",
                                                   !.file_id = ObjectId(Cardinality(DOMAIN gridfs) + 1)],
                        [Stores EXCEPT !.gridfs =
                            (ObjectId(Cardinality(DOMAIN gridfs) + 1) :>
                                Blob(inflight[p].parameters, inflight[p].document_id,
                                     now)) @@ @])
               ELSE Finish(p, Raise(Stores, "Exception", "unavailable",
                                       "fs.put failed", NoDoc))

\* efs lines 93-108: getsize and put_item; mongodb lines 166-175: insert_one
WriteMetadata(p) ==
    /\ inflight[p].pc = "metadata"
    /\ UNCHANGED <<client, db, fs, efs_root>>
    /\ \E write_ok \in BOOLEAN :
          LET locals == inflight[p]
              doc == [documentId |-> locals.document_id,
                      locator |-> IF handler = "document_storage_efs"
                                  THEN locals.file_path
                                  ELSE locals.file_id]
              saved == [kind |-> "saved",
                        text |-> SavedText(ValueOf(locals.parameters, "documentName"),
                                           locals.document_id)]
          IN IF handler = "document_storage"
             THEN IF write_ok
                  THEN Finish(p, Return(
                          [Stores EXCEPT !.documents_table =
                              PutItem(@, InlineItem(locals.parameters,
                                                    locals.document_id, now))],
                          saved, [doc EXCEPT !.locator = <<>>]))
                  ELSE Finish(p, Raise(Stores, "Exception", "unavailable",
                                       "put_item failed",
                                       [doc EXCEPT !.locator = <<>>]))
             ELSE IF handler = "document_storage_efs"
             THEN IF write_ok /\ FileExists(efs_files, locals.file_path)
                  THEN Finish(p, Return(
                          [Stores EXCEPT !.documents_table =
                              PutItem(@, EfsItem(locals.parameters, locals.document_id,
                                          locals.file_path,
                                          BytesLen(efs_files[locals.file_path]), now))],
                          saved, doc))
                  ELSE Continue(p, [locals EXCEPT !.pc = "unlink"], Stores)
             ELSE IF write_ok
                  THEN Finish(p, Return(
                          [Stores EXCEPT !.documents_table =
                              InsertOne(@, MongoDocument(locals.parameters,
                                             locals.document_id, locals.file_id, now))],
                          saved, doc))
                  ELSE Finish(p, Raise(Stores, "Exception", "unavailable",
                                       "insert_one failed", doc))

\* efs lines 121-122
UnlinkFile(p) ==
    /\ inflight[p].pc = "unlink"
    /\ UNCHANGED <<client, db, fs, efs_root>>
    /\ Continue(p, [inflight[p] EXCEPT !.pc = "rmdir"],
                UnlinkIfExists(Stores, inflight[p].file_path))

\* efs lines 123-125: the directory is removed if it is empty, and the
\* exception is raised again
RemoveDir(p) ==
    /\ inflight[p].pc = "rmdir"
    /\ Finish(p, Raise(RemoveIfEmpty(Stores, inflight[p].document_id),
                       "Exception", "unavailable", "Error saving document", NoDoc))

\* getDocument and listDocuments while saves are in progress
ReadDuringSaves ==
    /\ handler \in DocumentHandlers
    /\ client # 0 \/ handler # "document_storage_mongodb"
    /\ \/ \E parameters \in GetParameters : LambdaHandler("getDocument", parameters, "ok", client)
       \/ LambdaHandler("listDocuments", <<>>, "ok", client)

NextSteps ==
    \/ \E p \in Invocations : BeginSave(p)
    \/ \E p \in Invocations : WriteContent(p)
    \/ \E p \in Invocations : WriteMetadata(p)
    \/ \E p \in Invocations : UnlinkFile(p)
    \/ \E p \in Invocations : RemoveDir(p)
    \/ ReadDuringSaves

SpecSteps == Init /\ [][NextSteps]_vars

(***************************************************************************)
(* saveDocument with every combination of an absent, an empty and a given  *)
(* documentType and analysisResults.                                       *)
(***************************************************************************)
\* the parameter key absent, or present with one of the values
Optional(key, values) == {<<>>} \cup {<<Param(key, v)>> : v \in values}

DefaultsParameters ==
    {<<Param("documentName", NameA), Param("documentContent", ContentPlain)>> \o t \o a :
        t \in Optional("documentType", {<<>>, TypeMemo}),
        a \in Optional("analysisResults", {<<>>, AnalysisOk})}

SaveWithDefaults ==
    /\ handler \in DocumentHandlers
    /\ issued < MaxSaves
    /\ \E parameters \in DefaultsParameters, first_ok \in FirstOk :
          LambdaHandler("saveDocument", parameters, "ok", first_ok)

NextDefaults == SaveWithDefaults

SpecDefaults == Init /\ [][NextDefaults]_vars

(***************************************************************************)
(* get_mongodb_connection() call by call, under every combination of what  *)
(* the three connection methods do.                                        *)
(***************************************************************************)
\* one call: the globals it leaves, and what it tried and returned
GetConnection ==
    /\ handler = "document_storage_mongodb"
    /\ \E works \in [1..MethodCount -> MethodOutcomes] :
          /\ client' = Connect(works).client
          /\ db' = Connect(works).db
          /\ fs' = Connect(works).fs
          /\ response' = [shape |-> "connection", works |-> works,
                          attempts |-> Connect(works).attempts,
                          raised |-> Connect(works).client = 0,
                          function |-> "", parameters |-> <<>>,
                          body |-> [kind |-> "none"]]
          /\ UNCHANGED <<handler, documents_table, efs_root, efs_dirs, efs_files,
                         gridfs, toDoList, analysis_table, issued, now, inflight,
                         saveLog, failedSaves>>
          /\ UNCHANGED agentVars

NextConnect == GetConnection \/ ListDocuments

SpecConnect == Init /\ [][NextConnect]_vars


(***************************************************************************)
(* legal_agent_interface.py: LegalAgentInterface.  An optional string (a   *)
(* str or None) is Present(value) or Absent; "not x" holds of None and of  *)
(* the empty string.                                                       *)
(***************************************************************************)
\* x is truthy: not None and not ''
IsSet(x) == x.present /\ x.value # <<>>

\* a line that print() writes on stdout
Printed(origin, text) == [origin |-> origin, text |-> text]

\* the fields of self that the session methods read and write, and the
\* uuid4() values drawn so far
Self == [current_session_id |-> current_session_id, issued |-> issued]

\* lines 66-70
start_new_session(self) ==
    LET id == Uuid(self.issued + 1)
    IN [self |-> [current_session_id |-> Present(id), issued |-> self.issued + 1],
        value |-> id,
        printed |-> <<Printed("start_new_session", <<"New session started: ">> \o id)>>]

\* get_session_id without the test of current_session_id: a new session on
\* every call
get_session_id_fresh(self) == start_new_session(self)

\* lines 72-76
get_session_id(self) ==
    IF ~IsSet(self.current_session_id)
    THEN start_new_session(self)
    ELSE [self |-> self, value |-> self.current_session_id.value, printed |-> <<>>]

\* what the Bedrock runtime does with a call: it raises, or it streams the
\* chunks of a reply (a sequence of lines)
ReplyHello == <<<<"Hello">>>>
ReplyWithJson == <<<<"Result:">>, <<"{\"n\": 1}">>>>
AgentOutcomes ==
    {[ok |-> FALSE], [ok |-> TRUE, reply |-> ReplyHello],
     [ok |-> TRUE, reply |-> ReplyWithJson]}

\* lines 116-118: the chunks are printed after 'Agent: ' unless the trace is
\* enabled
PrintedReply(reply, enable_trace) ==
    IF enable_trace
    THEN <<Printed("invoke_agent", <<"Agent: ">>)>>
    ELSE <<Printed("invoke_agent", <<"Agent: ">> \o reply[1])>>
         \o [i \in 1..(Len(reply) - 1) |-> Printed("invoke_agent", reply[i + 1])]

\* lines 80-143.  message is a truthy string here; outcome is what the Bedrock
\* runtime does
invoke_agent(self, message, enable_trace, session_id, outcome) ==
    LET got == IF ~IsSet(session_id)
               THEN get_session_id(self)
               ELSE [self |-> self, value |-> session_id.value, printed |-> <<>>]
        user == <<Printed("invoke_agent", <<"User: ">> \o message)>>
    IN [self |-> got.self,
        call |-> [message |-> message, sessionId |-> got.value,
                  enableTrace |-> enable_trace],
        printed |->
            got.printed \o user
            \o (IF outcome.ok
                THEN PrintedReply(outcome.reply, enable_trace)
                     \o <<Printed("invoke_agent", <<"Session ID: ">> \o got.value)>>
                ELSE <<Printed("invoke_agent", <<"Agent: ">>),
                       Printed("invoke_agent", <<"Agent invocation failed">>)>>),
        value |->
            IF outcome.ok
            THEN [success |-> TRUE, response |-> outcome.reply,
                  session_id |-> got.value,
                  trace_data |-> IF enable_trace THEN Present(<<>>) ELSE Absent,
                  timestamp |-> now]
            ELSE [success |-> FALSE, error |-> <<"Agent invocation failed">>,
                  session_id |-> got.value, timestamp |-> now]]

(***************************************************************************)
(* A program that holds a LegalAgentInterface and calls its session        *)
(* methods and invoke_agent in any order.                                  *)
(***************************************************************************)
MaxSessions == 2
MaxCalls == 2

\* the session ids that a caller passes: none, the empty string, an id of its
\* own, an id that the interface has issued
SessionArguments ==
    {Absent, Present(<<>>), Present(<<"session-x">>)}
    \cup {Present(Uuid(i)) : i \in 1..issued}

Message == <<"hi">>

\* the interface after a method call: self, the lines printed and the call
\* with its value
InterfaceReturns(r, method, arguments) ==
    /\ current_session_id' = r.self.current_session_id
    /\ issued' = r.self.issued
    /\ stdout' = stdout \o r.printed
    /\ returned' = [method |-> method, arguments |-> arguments, value |-> r.value]

\* the variables that a call of the interface leaves alone
InterfaceFrame ==
    UNCHANGED <<handler, documents_table, efs_root, efs_dirs, efs_files, gridfs,
                toDoList, analysis_table, client, db, fs, now, inflight, response,
                saveLog, failedSaves, pc, running, stdin, stdin_open, exit_status,
                line, answer, readLog>>

StartNewSession ==
    /\ issued < MaxSessions
    /\ InterfaceReturns(start_new_session(Self), "start_new_session", <<>>)
    /\ agentCalls' = agentCalls
    /\ InterfaceFrame

GetSessionId ==
    /\ IsSet(current_session_id) \/ issued < MaxSessions
    /\ InterfaceReturns(get_session_id(Self), "get_session_id", <<>>)
    /\ agentCalls' = agentCalls
    /\ InterfaceFrame

InvokeAgent ==
    /\ IsSet(current_session_id) \/ issued < MaxSessions
    /\ Len(agentCalls) < MaxCalls
    /\ \E session_id \in SessionArguments, outcome \in AgentOutcomes,
          enable_trace \in BOOLEAN :
          LET r == invoke_agent(Self, Message, enable_trace, session_id, outcome)
          IN /\ InterfaceReturns(r, "invoke_agent",
                                 [session_id |-> session_id, outcome |-> outcome])
             /\ agentCalls' = Append(agentCalls, r.call)
    /\ InterfaceFrame

NextSession == StartNewSession \/ GetSessionId \/ InvokeAgent

SpecSession == Init /\ [][NextSession]_vars

(***************************************************************************)
(* persistent_agent.py: PersistentAgent.  A line of stdin is some          *)
(* whitespace around a content, which is empty, a text that is not JSON,   *)
(* or the JSON text of a value.                                            *)
(***************************************************************************)
Empty == [kind |-> "empty"]
Garbage == [kind |-> "garbage"]

\* json.dumps(value): the JSON text of value
json_dumps(value) == [kind |-> "json", value |-> value]

\* json.loads(content): JSONDecodeError unless the content is a JSON text
json_loads(content) ==
    IF content.kind = "json"
    THEN [raised |-> FALSE, value |-> content.value]
    ELSE [raised |-> TRUE]

RawLine(padding, content) == [padding |-> padding, content |-> content]

\* line.strip(): the content without the surrounding whitespace and newline
strip(raw) == raw.content

\* the JSON values of the requests: a number, and objects with or without
\* request_id, message, session_id and enable_trace
Number == [type |-> "number"]
Object(request_id, message, session_id, enable_trace) ==
    [type |-> "object", request_id |-> request_id, message |-> message,
     session_id |-> session_id, enable_trace |-> enable_trace]

StdinLines ==
    {RawLine(0, Empty), RawLine(2, Empty), RawLine(0, Garbage),
     RawLine(0, json_dumps(Number)),
     RawLine(0, json_dumps(Object(Present(<<"r1">>), Present(Message), Absent, Absent))),
     RawLine(1, json_dumps(Object(Present(<<"r2">>), Present(Message),
                                  Present(<<"session-x">>), Present(TRUE)))),
     RawLine(0, json_dumps(Object(Present(<<"r1">>), Absent, Absent, Absent))),
     RawLine(0, json_dumps(Object(Absent, Present(<<>>), Absent, Absent))),
     RawLine(0, json_dumps(Object(Absent, Present(Message), Absent, Present(FALSE))))}

MaxLines == 2

\* the result of process_request when no call of invoke_agent is made
NoInvocation(self, raised, value) ==
    [self |-> self, invoked |-> FALSE, printed |-> <<>>, raised |-> raised,
     value |-> value]

\* process_request without 'if not message': every request goes to the agent
process_request_unchecked(self, request_data, outcome) ==
    IF request_data.type # "object"
    THEN NoInvocation(self, TRUE, <<>>)
    ELSE LET r == invoke_agent(self, Get(request_data.message, <<>>),
                               Get(request_data.enable_trace, FALSE),
                               request_data.session_id, outcome)
         IN [self |-> r.self, invoked |-> TRUE, call |-> r.call,
             printed |-> r.printed, raised |-> FALSE,
             value |-> [request_id |-> request_data.request_id] @@ r.value]

\* lines 36-67.  A value that is not an object has no get(): the call in the
\* try raises, the one in the except clause raises again, and the exception
\* leaves process_request
process_request(self, request_data, outcome) ==
    IF request_data.type # "object"
    THEN NoInvocation(self, TRUE, <<>>)
    ELSE IF ~IsSet(request_data.message)
    THEN NoInvocation(self, FALSE,
                      [request_id |-> request_data.request_id, success |-> FALSE,
                       error |-> <<"Message is required">>])
    ELSE LET r == invoke_agent(self, request_data.message.value,
                               Get(request_data.enable_trace, FALSE),
                               request_data.session_id, outcome)
         IN [self |-> r.self, invoked |-> TRUE, call |-> r.call,
             printed |-> r.printed, raised |-> FALSE,
             value |-> [request_id |-> request_data.request_id] @@ r.value]

\* the variables of the handlers, which the process leaves alone
AgentFrame ==
    UNCHANGED <<handler, documents_table, efs_root, efs_dirs, efs_files, gridfs,
                toDoList, analysis_table, client, db, fs, now, inflight, response,
                saveLog, failedSaves>>

\* lines 26-34 and 71-72: create_legal_agent() returns or raises
Initialize ==
    /\ pc = "start"
    /\ \E created \in BOOLEAN :
          IF created
          THEN /\ stdout' = stdout \o <<Printed("__init__",
                                                <<"Legal Agent Interface initialized">>),
                                        Printed("initialize", <<"AGENT_READY">>)>>
               /\ pc' = "while"
               /\ exit_status' = exit_status
          ELSE /\ stdout' = stdout
               /\ pc' = "exited"
               /\ exit_status' = Present(1)
    /\ current_session_id' = Absent
    /\ UNCHANGED <<running, stdin, stdin_open, line, answer, returned, readLog,
                   agentCalls, issued>>
    /\ AgentFrame

\* the loop without 'if not line: break': the end of input is read as a blank
\* line
ReadLineNoBreak ==
    /\ pc = "while"
    /\ ~running \/ stdin # <<>> \/ ~stdin_open
    /\ IF ~running
       THEN /\ pc' = "exited"
            /\ exit_status' = Present(0)
            /\ UNCHANGED <<stdin, readLog, line>>
       ELSE IF stdin = <<>>
       THEN UNCHANGED <<pc, exit_status, stdin, readLog, line>>
       ELSE /\ stdin' = Tail(stdin)
            /\ readLog' = Append(readLog, Head(stdin))
            /\ exit_status' = exit_status
            /\ IF strip(Head(stdin)) = Empty
               THEN pc' = "while" /\ line' = line
               ELSE pc' = "loads" /\ line' = Present(strip(Head(stdin)))
    /\ UNCHANGED <<running, stdin_open, stdout, answer, current_session_id,
                   returned, agentCalls, issued>>
    /\ AgentFrame

\* lines 77-86: the loop test, readline() and the tests of the line; readline
\* blocks while stdin is empty and open
ReadLine ==
    /\ pc = "while"
    /\ ~running \/ stdin # <<>> \/ ~stdin_open
    /\ IF ~running \/ stdin = <<>>
       THEN /\ pc' = "exited"
            /\ exit_status' = Present(0)
            /\ UNCHANGED <<stdin, readLog, line>>
       ELSE /\ stdin' = Tail(stdin)
            /\ readLog' = Append(readLog, Head(stdin))
            /\ exit_status' = exit_status
            /\ IF strip(Head(stdin)) = Empty
               THEN pc' = "while" /\ line' = line
               ELSE pc' = "loads" /\ line' = Present(strip(Head(stdin)))
    /\ UNCHANGED <<running, stdin_open, stdout, answer, current_session_id,
                   returned, agentCalls, issued>>
    /\ AgentFrame

\* lines 89-92 and 97-107 up to the print: json.loads and process_request
ProcessLine ==
    /\ pc = "loads"
    /\ \E outcome \in AgentOutcomes :
          LET request_data == json_loads(line.value)
              r == IF request_data.raised
                   THEN NoInvocation(Self, TRUE, <<>>)
                   ELSE process_request(Self, request_data.value, outcome)
          IN /\ answer' = Present(
                    IF request_data.raised
                    THEN [success |-> FALSE, error |-> <<"Invalid JSON">>]
                    ELSE IF r.raised
                    THEN [success |-> FALSE, error |-> <<"Unexpected error">>]
                    ELSE r.value)
             /\ stdout' = stdout \o r.printed
             /\ current_session_id' = r.self.current_session_id
             /\ issued' = r.self.issued
             /\ agentCalls' = IF r.invoked THEN Append(agentCalls, r.call) ELSE agentCalls
             /\ returned' = IF r.invoked
                            THEN [method |-> "invoke_agent",
                                  arguments |-> [session_id |-> request_data.value.session_id,
                                                 outcome |-> outcome],
                                  value |-> r.value]
                            ELSE returned
    /\ pc' = "print"
    /\ UNCHANGED <<running, stdin, stdin_open, exit_status, line, readLog>>
    /\ AgentFrame

\* lines 95, 98-101, 104-107: print(json.dumps(response), flush=True)
PrintResponse ==
    /\ pc = "print"
    /\ stdout' = Append(stdout, [origin |-> "run", text |-> json_dumps(answer.value)])
    /\ answer' = Absent
    /\ pc' = "while"
    /\ UNCHANGED <<running, stdin, stdin_open, exit_status, line, current_session_id,
                   returned, readLog, agentCalls, issued>>
    /\ AgentFrame

\* lines 21-24 and 111-112: SIGINT or SIGTERM arrives, _signal_handler runs
\* and its SystemExit leaves run through the finally clause
SignalHandler ==
    /\ pc # "exited"
    /\ running' = FALSE
    /\ pc' = "exited"
    /\ exit_status' = Present(0)
    /\ UNCHANGED <<stdin, stdin_open, stdout, line, answer, current_session_id,
                   returned, readLog, agentCalls, issued>>
    /\ AgentFrame

\* the parent process writes a line to the stdin of the process
WriteLine ==
    /\ pc # "exited"
    /\ stdin_open
    /\ Len(readLog) + Len(stdin) < MaxLines
    /\ \E raw \in StdinLines : stdin' = Append(stdin, raw)
    /\ UNCHANGED <<pc, running, stdin_open, stdout, exit_status, line, answer,
                   current_session_id, returned, readLog, agentCalls, issued>>
    /\ AgentFrame

\* the parent process closes the stdin of the process
CloseStdin ==
    /\ stdin_open
    /\ stdin_open' = FALSE
    /\ UNCHANGED <<pc, running, stdin, stdout, exit_status, line, answer,
                   current_session_id, returned, readLog, agentCalls, issued>>
    /\ AgentFrame

NextAgent ==
    \/ Initialize
    \/ ReadLine
    \/ ProcessLine
    \/ PrintResponse
    \/ SignalHandler
    \/ WriteLine
    \/ CloseStdin

SpecAgent == Init /\ [][NextAgent]_vars

\* the process is scheduled: a statement that can run does run.  The parent
\* and the signals are under no obligation.
SpecAgentLive ==
    /\ SpecAgent
    /\ WF_vars(Initialize)
    /\ WF_vars(ReadLine)
    /\ WF_vars(ProcessLine)
    /\ WF_vars(PrintResponse)

(***************************************************************************)
(* Properties.  response holds the request answered last and its answer,   *)
(* so a state predicate on response and the stores speaks of every request *)
(* of every run.                                                           *)
(***************************************************************************)
\* s is a prefix of t
IsPrefix(s, t) == Len(s) <= Len(t) /\ SubSeq(t, 1, Len(s)) = s

\* the run-length text s ends with the text m
EndsWith(s, m) ==
    /\ StrLen(s) >= StrLen(m)
    /\ Expand(Drop(s, StrLen(s) - StrLen(m))) = Expand(m)

\* the request answered last called this function
Answered(function) == response.function = function

\* the value a request gives for key (its last occurrence), <<>> when it
\* gives none
Given(parameters, key) ==
    LET at == {i \in 1..Len(parameters) : parameters[i].name = key}
    IN IF at = {} THEN <<>>
       ELSE parameters[CHOOSE i \in at : \A j \in at : j <= i].value

\* the request gives no value, or the empty string, for key
Blank(parameters, key) == Given(parameters, key) = <<>>

\* the answer to getDocument reports the j-th successful save: its name, its
\* type, and a preview that is a prefix of its (inline: truncated) content
ReportsSave(j) ==
    LET saved == saveLog[j].parameters
        content == Given(saved, "documentContent")
        stored == IF handler = "document_storage" THEN Truncated(content) ELSE content
        type == IF Blank(saved, "documentType")
                THEN DefaultType
                ELSE Given(saved, "documentType")
    IN /\ response.shape = "envelope"
       /\ response.body.kind = "found"
       /\ response.body.documentName = Given(saved, "documentName")
       /\ response.body.documentType = type
       /\ response.body.preview.ok
       /\ IsPrefix(response.body.preview.text, Expand(Slice(stored, PreviewLen)))

\* C1: round trip.  In each backend, a getDocument with the id parsed from
\* the text of a successful saveDocument (the text after "ID: "), answered
\* by a store that is up, returns a success envelope that reports the saved
\* name and type and a preview that is a prefix of the saved content (of
\* the truncated content when it was oversized).
RoundTrip ==
    \A j \in 1..Len(saveLog) :
        ( /\ Answered("getDocument")
          /\ response.parameters = <<Param("documentId", ParseId(saveLog[j].text))>>
          /\ response.cause # "unavailable" )
        => ReportsSave(j)

\* C2: cleanup.  In the filesystem and blob-store backends, when saveDocument
\* has failed in its metadata write after the content write, the content it
\* wrote (the file and its directory, the blob) is gone from the content
\* store when the failure is returned.
ContentDeletedOnMetadataFailure ==
    ( /\ handler \in FileBackends
      /\ Answered("saveDocument")
      /\ response.shape = "status"
      /\ response.doc # NoDoc )
    => IF handler = "document_storage_efs"
       THEN /\ ~FileExists(efs_files, response.doc.locator)
            /\ response.doc.documentId \notin efs_dirs
       ELSE response.doc.locator \notin DOMAIN gridfs

\* C3: no orphan is reachable.  In the filesystem and blob-store backends,
\* once a saveDocument has failed in its metadata write after the content
\* write, no later getDocument returns that document or its content and no
\* later listDocuments lists it.
NoOrphanReachable ==
    handler \in FileBackends =>
        \A f \in failedSaves :
            /\ ( /\ Answered("getDocument")
                 /\ response.shape = "envelope"
                 /\ response.body.kind \in {"found", "file_missing"} )
               => /\ response.doc.documentId # f.documentId
                  /\ response.doc.locator # f.locator
            /\ ( /\ Answered("listDocuments")
                 /\ response.shape = "envelope"
                 /\ response.body.kind = "list" )
               => \A i \in 1..Len(response.body.entries) :
                      response.body.entries[i].documentId # f.documentId

\* C3's case: after such a failed save, a getDocument asks for the id the
\* failed save had drawn, and is told that there is no such document
OrphanAskedFor ==
    /\ handler \in FileBackends
    /\ Answered("getDocument")
    /\ response.shape = "envelope"
    /\ response.body.kind = "not_found"
    /\ \E f \in failedSaves : Given(response.parameters, "documentId") = f.documentId

\* C4: size ceiling of the inline backend.  For every saved content of more
\* than 350,000 UTF-8 bytes, the stored record's contentSize is at most
\* 350,000 plus the length of the truncation marker and the stored
\* documentContent ends with the truncation marker.
InlineSizeCeiling ==
    handler = "document_storage" =>
        \A j \in 1..Len(saveLog) :
            LET content == Given(saveLog[j].parameters, "documentContent")
                found == FindRecords(documents_table, saveLog[j].documentId)
            IN ByteLen(content) > max_size =>
                  /\ found # <<>>
                  /\ found[1].contentSize <= max_size + StrLen(TruncationMarker)
                  /\ EndsWith(found[1].documentContent, TruncationMarker)

\* C5: the size field.  In every backend, every record's size field
\* (contentSize, fileSize) is the byte length of the content stored for the
\* record, measured after the truncation when there was one.
SizeFieldIsStoredLength ==
    \A i \in 1..Len(documents_table) :
        LET d == documents_table[i]
        IN IF handler = "document_storage"
           THEN d.contentSize = ByteLen(d.documentContent)
           ELSE IF handler = "document_storage_efs"
           THEN /\ FileExists(efs_files, d.filePath)
                /\ d.fileSize = BytesLen(efs_files[d.filePath])
           ELSE /\ d.gridfsFileId \in DOMAIN gridfs
                /\ d.fileSize = BytesLen(gridfs[d.gridfsFileId].data)

FailureStatusMapping ==
    response.shape = "status" =>
        response.statusCode =
            (IF response.cause = "validation" THEN 400
             ELSE IF response.cause = "unavailable" THEN 503
             ELSE 500)

\* C8: not-found is not an error.  In every backend and store state, a
\* getDocument with a non-empty documentId that matches no metadata record,
\* whose lookup the store answers, returns the success envelope with the
\* not-found text for that id, not a {statusCode, body} pair.
NotFoundIsSuccess ==
    LET document_id == Given(response.parameters, "documentId")
    IN ( /\ Answered("getDocument")
         /\ document_id # <<>>
         /\ \A i \in 1..Len(documents_table) :
                documents_table[i].documentId # document_id
         /\ response.cause # "unavailable" )
       => /\ response.shape = "envelope"
          /\ response.body.kind = "not_found"
          /\ response.body.documentId = document_id

\* C8's case: a store that holds documents is asked for an id it does not have
NotFoundAmongDocuments ==
    /\ Answered("getDocument")
    /\ Given(response.parameters, "documentId") = <<"nonexistent-id">>
    /\ documents_table # <<>>
    /\ response.shape = "envelope"

\* the active records that a listDocuments with filter T is to list (no
\* filter: T = <<>>)
Matching(T) ==
    SelectSeq(documents_table,
              LAMBDA d : d.status = "active" /\ (T # <<>> => d.documentType = T))

ListCountIsFullCount ==
    ( /\ Answered("listDocuments")
      /\ response.shape = "envelope"
      /\ response.body.kind = "list" )
    => /\ Len(response.body.entries) <= DisplayLimit
       /\ response.body.count =
             Len(Matching(Given(response.parameters, "documentType")))


\* the last response is the success envelope
Succeeded == response.shape = "envelope"

\* C12: response envelope.  Every successful request returns the envelope, in
\* which actionGroup and function are the request's actionGroup and function
\* and messageVersion is the request's messageVersion, or "1" when the request
\* carries none.
EnvelopeEchoes ==
    Succeeded =>
        /\ response.event.actionGroup.present
        /\ response.envelope.actionGroup = response.event.actionGroup.value
        /\ response.event.function.present
        /\ response.envelope.function = response.event.function.value
        /\ response.envelope.messageVersion =
              (IF response.event.messageVersion.present
               THEN response.event.messageVersion.value
               ELSE "1")

\* C12's cases: a success for a request without messageVersion, and one for a
\* request whose actionGroup and messageVersion are not those of the tests
EnvelopeWithDefaultVersion ==
    /\ Succeeded
    /\ ~response.event.messageVersion.present
    /\ response.envelope.messageVersion = "1"

\* C13: nothing crashes the process.  For every event (keys missing,
\* parameters malformed, the backing store failing) lambda_handler returns the
\* envelope or a {statusCode, body} pair; no exception leaves it.
NothingEscapes == response.shape \in {"none", "envelope", "status"}

\* C13's case: an event without actionGroup or function, or with a nameless
\* parameter, answered with a {statusCode, body} pair
MalformedEventAnswered ==
    /\ response.shape = "status"
    /\ response.cause = "malformed"
    /\ response.statusCode \in {400, 500}

\* C14: in the blob-store backend, while no connection method has succeeded
\* every request is answered 503 and nothing has been saved, read or listed:
\* the stores are as they were created, whatever the event's function is and
\* whether or not the event has one.
RefusedBeforeDispatch ==
    (handler = "document_storage_mongodb" /\ client = 0 /\ response.shape # "none") =>
        /\ response.shape = "status"
        /\ response.statusCode = 503
        /\ response.cause = "unavailable"
        /\ documents_table = <<>>
        /\ gridfs = <<>>
        /\ issued = 0

\* C14's case: the connection fails for an event that has no function
RefusedWithoutFunction ==
    /\ handler = "document_storage_mongodb"
    /\ response.statusCode = 503
    /\ ~response.event.function.present

\* the operations of each handler
Registered ==
    CASE handler \in DocumentHandlers -> {"saveDocument", "getDocument", "listDocuments"}
      [] handler = "legal_analyzer" ->
            {"analyzeDocument", "generateRiskReport", "saveAnalysisResults"}
      [] handler = "todolist" -> {"addTask", "listTasks"}
      [] OTHER -> {"sendEmail"}

\* C15: unknown function.  A request that reaches the dispatch with a function
\* name that is none of the handler's operations is answered with statusCode
\* 500, and no record, file or blob is created or changed.
UnknownFunctionFails ==
    [][(/\ response'.event.actionGroup.present
        /\ response'.event.function.present
        /\ response'.function \notin Registered
        /\ ~(handler = "document_storage_mongodb" /\ client' = 0))
       => (/\ response'.shape = "status"
           /\ response'.statusCode = 500
           /\ documents_table' = documents_table
           /\ efs_dirs' = efs_dirs
           /\ efs_files' = efs_files
           /\ gridfs' = gridfs
           /\ toDoList' = toDoList
           /\ analysis_table' = analysis_table)]_vars

\* the value that a function uses for key: the request's, or the default
Decoded(key, default) ==
    IF Blank(response.parameters, key) THEN default ELSE Given(response.parameters, key)

\* C16: parameter decoding.  The value that an operation uses for a name is
\* the value of the last entry with that name (an empty last value counts as
\* missing), and entries with other names change nothing: the record saved,
\* the document looked up, the type listed and the task added are those of
\* the last occurrences.
LastOccurrenceWins ==
    /\ (handler \in DocumentHandlers /\ Answered("saveDocument") /\ Succeeded) =>
          \E i \in 1..Len(documents_table) :
             /\ documents_table[i].documentId = response.doc.documentId
             /\ documents_table[i].documentName =
                   Given(response.parameters, "documentName")
             /\ documents_table[i].documentType = Decoded("documentType", DefaultType)
             /\ documents_table[i].analysisResults =
                   Decoded("analysisResults", DefaultAnalysis)
    /\ (handler \in DocumentHandlers /\ Answered("getDocument") /\ Succeeded) =>
          /\ response.body.kind = "found" =>
                response.doc.documentId = Given(response.parameters, "documentId")
          /\ response.body.kind = "not_found" =>
                response.body.documentId = Given(response.parameters, "documentId")
    /\ (handler \in DocumentHandlers /\ Answered("listDocuments") /\ Succeeded
          /\ response.body.kind = "list"
          /\ ~Blank(response.parameters, "documentType")) =>
          \A i \in 1..Len(response.body.entries) :
             response.body.entries[i].documentType =
                Given(response.parameters, "documentType")
    /\ (handler = "todolist" /\ Succeeded) =>
          /\ toDoList[Len(toDoList)].taskDescription =
                Decoded("taskDescription", <<"No description provided">>)
          /\ toDoList[Len(toDoList)].status = Decoded("status", <<"pending">>)

\* C16's case: a save whose parameters name the document twice and its type
\* twice, answered for the second name
SavedUnderLastName ==
    /\ handler \in DocumentHandlers
    /\ Answered("saveDocument")
    /\ Succeeded
    /\ Len(response.parameters) = 5
    /\ Given(response.parameters, "documentName") = NameWithId
    /\ \E i \in 1..Len(documents_table) : documents_table[i].documentType = TypeMemo

\* C17: read-only get/list and immutable records.  A getDocument or
\* listDocuments request leaves the metadata store as it was, and every
\* request, successful or not, leaves each existing record in the store with
\* the same field values.
RecordsImmutable ==
    [][/\ \A i \in 1..Len(documents_table) :
             \E j \in 1..Len(documents_table') :
                documents_table'[j] = documents_table[i]
       /\ response'.function \in {"getDocument", "listDocuments"} =>
             documents_table' = documents_table]_vars

\* C17's case: a record that is still stored after a save that failed and a
\* list
RecordOutlivesFailedSave ==
    /\ documents_table # <<>>
    /\ failedSaves # {}
    /\ Answered("listDocuments")
    /\ Succeeded

\* C18: status invariant.  Every record that a backend has stored has status
\* 'active', so the records that a scan filtered on status = 'active'
\* retrieves are the records that an unfiltered scan retrieves.
AllRecordsActive ==
    /\ \A i \in 1..Len(documents_table) : documents_table[i].status = "active"
    /\ SelectSeq(documents_table, LAMBDA d : d.status = "active") = documents_table

\* C18's case: an unfiltered list of a backend that filters on the status,
\* counting every stored record
StatusFilterKeepsAll ==
    /\ handler \in FileBackends
    /\ Answered("listDocuments")
    /\ Blank(response.parameters, "documentType")
    /\ Succeeded
    /\ response.body.kind = "list"
    /\ Len(documents_table) = 2
    /\ response.body.count = 2

\* the content that a record points at exists: the file at filePath, the
\* GridFS file with id gridfsFileId
LocatorExists(d) ==
    IF handler = "document_storage_efs"
    THEN FileExists(efs_files, d.filePath)
    ELSE d.gridfsFileId \in DOMAIN gridfs

\* C19: content before metadata.  In the filesystem and blob-store backends,
\* in every state (between the steps of saves that interleave with each
\* other and with get and list requests, after failed saves and their
\* cleanup), the content that each metadata record points at exists, and no
\* getDocument answers that the metadata was found but the file is missing.
ContentBeforeMetadata ==
    handler \in FileBackends =>
        /\ \A i \in 1..Len(documents_table) : LocatorExists(documents_table[i])
        /\ response.body.kind # "file_missing"

\* the document whose save_document takes the step, for an invocation p that
\* takes one
SavingId(p) ==
    IF inflight[p].pc = "idle" THEN inflight'[p].document_id ELSE inflight[p].document_id

\* C20: filesystem path containment.  For every documentName that
\* saveDocument accepts, the recorded filePath is a file in the directory of
\* its document, and a step of a save (the write, the cleanup) leaves every
\* file outside the directory of the document being saved as it was: not
\* created, not overwritten, not deleted.
PathContainment ==
    [][handler = "document_storage_efs" =>
          /\ \A i \in 1..Len(documents_table') :
                documents_table'[i].filePath.dir = documents_table'[i].documentId
          /\ \A p \in Invocations :
                inflight'[p] # inflight[p] =>
                   \A q \in DOMAIN efs_files \cup DOMAIN efs_files' :
                      q.dir # SavingId(p) =>
                         /\ q \in DOMAIN efs_files
                         /\ q \in DOMAIN efs_files'
                         /\ efs_files'[q] = efs_files[q]]_vars

\* the part of a stored content that precedes the truncation marker
BeforeMarker(stored) == Slice(stored, StrLen(stored) - StrLen(TruncationMarker))

\* C21: inline truncation.  For every saved content of more than 350,000
\* UTF-8 bytes the stored documentContent is the longest prefix of the content
\* that has at most 350,000 bytes (whole characters only) followed by the
\* truncation marker; a content of at most 350,000 bytes is stored as it is.
InlineTruncation ==
    handler = "document_storage" =>
        \A j \in 1..Len(saveLog) :
            LET content == Given(saveLog[j].parameters, "documentContent")
                found == FindRecords(documents_table, saveLog[j].documentId)
            IN /\ found # <<>>
               /\ IF ByteLen(content) > max_size
                  THEN /\ EndsWith(found[1].documentContent, TruncationMarker)
                       /\ BeforeMarker(found[1].documentContent) =
                             Slice(content, StrLen(BeforeMarker(found[1].documentContent)))
                       /\ ByteLen(BeforeMarker(found[1].documentContent)) <= max_size
                       /\ ByteLen(Slice(content,
                              StrLen(BeforeMarker(found[1].documentContent)) + 1)) > max_size
                  ELSE found[1].documentContent = content

\* the content that the store holds for the record d
StoredContent(d) ==
    IF handler = "document_storage"
    THEN [ok |-> TRUE, data |-> d.documentContent]
    ELSE IF handler = "document_storage_efs"
    THEN IF FileExists(efs_files, d.filePath)
         THEN [ok |-> TRUE, data |-> efs_files[d.filePath]]
         ELSE [ok |-> FALSE, data |-> <<>>]
    ELSE IF d.gridfsFileId \in DOMAIN gridfs
         THEN [ok |-> TRUE, data |-> gridfs[d.gridfsFileId].data]
         ELSE [ok |-> FALSE, data |-> <<>>]

\* the content that a save with these parameters is to store
PassedContent(parameters) ==
    IF handler = "document_storage"
    THEN Truncated(Given(parameters, "documentContent"))
    ELSE FileData(Given(parameters, "documentContent"))

\* C22: no locking needed.  Under every interleaving of the steps of two
\* saveDocument invocations, in every backend, the saves that have returned
\* success have distinct documentIds, and each has its record, whose stored
\* content is the content passed to that save: no save overwrites or removes
\* another's record or content.
SavesDoNotInterfere ==
    handler \in DocumentHandlers =>
        \A j \in 1..Len(saveLog) :
            /\ \A k \in 1..Len(saveLog) :
                  saveLog[k].documentId = saveLog[j].documentId => k = j
            /\ LET found == FindRecords(documents_table, saveLog[j].documentId)
               IN /\ Len(found) = 1
                  /\ StoredContent(found[1]).ok
                  /\ StoredContent(found[1]).data = PassedContent(saveLog[j].parameters)

\* the methods of a call whose try succeeds
Working(works) == {m \in 1..MethodCount : works[m] = "ok"}

DateOf(document_id) == FindRecords(documents_table, document_id)[1].uploadDate

\* C24: blob-store list order.  A listDocuments of the blob-store backend
\* displays the matching active records in non-increasing uploadDate order,
\* and no matching record that it leaves out is more recent than one that it
\* displays: with more than 10 matches the 10 displayed are the 10 most
\* recently uploaded.
MostRecentFirst ==
    ( /\ handler = "document_storage_mongodb"
      /\ Answered("listDocuments")
      /\ Succeeded
      /\ response.body.kind = "list" ) =>
        LET entries == response.body.entries
            matching == Matching(Given(response.parameters, "documentType"))
        IN /\ \A i \in 1..(Len(entries) - 1) :
                 DateOf(entries[i].documentId) >= DateOf(entries[i + 1].documentId)
           /\ \A k \in 1..Len(matching) :
                 (\A i \in 1..Len(entries) :
                     entries[i].documentId # matching[k].documentId)
                 => \A i \in 1..Len(entries) :
                       matching[k].uploadDate <= DateOf(entries[i].documentId)

\* C24's case: eleven records match and ten are displayed
TenOfElevenDisplayed ==
    /\ handler = "document_storage_mongodb"
    /\ Answered("listDocuments")
    /\ Succeeded
    /\ response.body.kind = "list"
    /\ Len(response.body.entries) = DisplayLimit
    /\ Len(Matching(Given(response.parameters, "documentType"))) = DisplayLimit + 1

\* the record of document_id has no file at its filePath
FileMissing(document_id) ==
    /\ FindRecords(documents_table, document_id) # <<>>
    /\ ~FileExists(efs_files, FindRecords(documents_table, document_id)[1].filePath)

\* a getDocument or listDocuments of the filesystem backend runs between the
\* statements of the saves in flight
ReadStep ==
    /\ handler = "document_storage_efs"
    /\ inflight' = inflight
    /\ response'.function \in {"getDocument", "listDocuments"}

\* C25: filesystem get with missing file.  When the metadata record of the
\* requested documentId exists but the file at its filePath does not,
\* getDocument returns a success envelope that reports the missing file and
\* leaves the metadata record in place; listDocuments marks exactly the
\* displayed entries whose file is missing as not existing and still counts
\* them.
MissingFileReported ==
    [][ReadStep =>
         /\ documents_table' = documents_table
         /\ efs_files' = efs_files
         /\ ( /\ response'.function = "getDocument"
              /\ FileMissing(Given(response'.parameters, "documentId")) )
            => /\ response'.shape = "envelope"
               /\ response'.body.kind = "file_missing"
         /\ ( /\ response'.function = "listDocuments"
              /\ Matching(<<>>) # <<>> )
            => /\ response'.shape = "envelope"
               /\ response'.body.kind = "list"
               /\ response'.body.count = Len(Matching(<<>>))
               /\ \A i \in 1..Len(response'.body.entries) :
                     /\ response'.body.entries[i].documentId = Matching(<<>>)[i].documentId
                     /\ response'.body.entries[i].exists
                           = FileExists(efs_files, Matching(<<>>)[i].filePath)
       ]_vars

\* C25's case: a list that counts and marks a record whose file is gone
MissingFileListed ==
    /\ handler = "document_storage_efs"
    /\ Answered("listDocuments")
    /\ Succeeded
    /\ response.body.kind = "list"
    /\ \E i \in 1..Len(response.body.entries) :
          /\ ~response.body.entries[i].exists
          /\ FileMissing(response.body.entries[i].documentId)
          /\ response.body.count = Len(documents_table)

\* the record that the j-th successful save stored
SavedRecord(j) == FindRecords(documents_table, ParseId(saveLog[j].text))[1]

\* the value that a save stores for key: the request's, or the default when
\* the request gives none or the empty string
Expected(parameters, key, default) ==
    IF Blank(parameters, key) THEN default ELSE Given(parameters, key)

\* C26: defaults.  In every backend the record of a successful saveDocument
\* has documentType 'legal_document' when the request's documentType is absent
\* or empty and analysisResults 'No analysis performed' when its
\* analysisResults is absent or empty, and the provided values otherwise; in
\* the blob-store backend the metadata of the record's blob carries the
\* record's documentId, documentType, analysisResults and status.
DefaultsStored ==
    handler \in DocumentHandlers =>
        \A j \in 1..Len(saveLog) :
            /\ FindRecords(documents_table, ParseId(saveLog[j].text)) # <<>>
            /\ SavedRecord(j).documentType
                  = Expected(saveLog[j].parameters, "documentType", <<"legal_document">>)
            /\ SavedRecord(j).analysisResults
                  = Expected(saveLog[j].parameters, "analysisResults",
                             <<"No analysis performed">>)
            /\ handler = "document_storage_mongodb" =>
                  /\ SavedRecord(j).gridfsFileId \in DOMAIN gridfs
                  /\ LET metadata == gridfs[SavedRecord(j).gridfsFileId].metadata
                     IN /\ metadata.documentId = SavedRecord(j).documentId
                        /\ metadata.documentType = SavedRecord(j).documentType
                        /\ metadata.analysisResults = SavedRecord(j).analysisResults
                        /\ metadata.status = SavedRecord(j).status

\* C26's case: the blob store holds a save with an empty documentType and no
\* analysisResults and a save that gives both
DefaultedAndGivenSaved ==
    /\ handler = "document_storage_mongodb"
    /\ \E j, k \in 1..Len(saveLog) :
          /\ ParamIndex(saveLog[j].parameters, "documentType") # 0
          /\ Blank(saveLog[j].parameters, "documentType")
          /\ ParamIndex(saveLog[j].parameters, "analysisResults") = 0
          /\ SavedRecord(j).documentType = DefaultType
          /\ SavedRecord(j).analysisResults = DefaultAnalysis
          /\ SavedRecord(k).documentType = TypeMemo
          /\ SavedRecord(k).analysisResults = AnalysisOk

\* C27: task register.  A request with function listTasks leaves the task
\* table unchanged; only an addTask request appends, and an addTask request
\* that is answered with the envelope appends exactly one record.
OnlyAddTaskAppends ==
    [][handler = "todolist" =>
          /\ response'.function = "listTasks" => toDoList' = toDoList
          /\ toDoList' # toDoList => response'.function = "addTask"
          /\ (response'.function = "addTask" /\ response'.shape = "envelope") =>
                /\ Len(toDoList') = Len(toDoList) + 1
                /\ SubSeq(toDoList', 1, Len(toDoList)) = toDoList]_vars

\* the step is a call of invoke_agent
InvokeStep ==
    /\ returned'.method = "invoke_agent"
    /\ Len(agentCalls') = Len(agentCalls) + 1

\* the session id that the Bedrock runtime was called with in the step
UsedSession == agentCalls'[Len(agentCalls')].sessionId

\* C30: session stability.  get_session_id creates a session id on first use
\* and returns that same id on every later call until start_new_session is
\* called; invoke_agent without a session_id (None or '') uses the current
\* session id, creating it if none exists; invoke_agent with an explicit
\* session_id uses that id for the call, reports it in the result and leaves
\* current_session_id unchanged, whether the call succeeds or fails.
SessionStable ==
    [][/\ returned'.method = "get_session_id" =>
             /\ IsSet(current_session_id')
             /\ returned'.value = current_session_id'.value
             /\ IsSet(current_session_id) => current_session_id' = current_session_id
       /\ (IsSet(current_session_id) /\ current_session_id' # current_session_id)
             => returned'.method = "start_new_session"
       /\ (InvokeStep /\ ~IsSet(returned'.arguments.session_id)) =>
             /\ IsSet(current_session_id')
             /\ IsSet(current_session_id) => current_session_id' = current_session_id
             /\ UsedSession = current_session_id'.value
             /\ returned'.value.session_id = current_session_id'.value
       /\ (InvokeStep /\ IsSet(returned'.arguments.session_id)) =>
             /\ UsedSession = returned'.arguments.session_id.value
             /\ returned'.value.session_id = returned'.arguments.session_id.value
             /\ current_session_id' = current_session_id]_vars

\* C30's case: a failed call with an explicit session id that is not the
\* current one, after which get_session_id would still return the current one
ExplicitSessionFailed ==
    /\ returned.method = "invoke_agent"
    /\ IsSet(returned.arguments.session_id)
    /\ ~returned.value.success
    /\ IsSet(current_session_id)
    /\ returned.arguments.session_id.value # current_session_id.value
    /\ returned.value.session_id = returned.arguments.session_id.value
    /\ \E k \in 1..Len(agentCalls) : agentCalls[k].sessionId = current_session_id.value

\* the non-blank lines that the loop has read, stripped, in the order read
RequestsRead ==
    LET nonblank == SelectSeq(readLog, LAMBDA raw : strip(raw) # Empty)
    IN [i \in 1..Len(nonblank) |-> strip(nonblank[i])]

\* the JSON lines that the loop has printed, parsed, in the order printed
ResponsesPrinted ==
    LET printed == SelectSeq(stdout, LAMBDA l : l.origin = "run")
    IN [i \in 1..Len(printed) |-> json_loads(printed[i].text).value]

\* the content is the JSON text of an object
IsRequest(content) == content.kind = "json" /\ content.value.type = "object"

\* the content is a request with a message
HasMessage(content) == IsRequest(content) /\ IsSet(content.value.message)

\* how many of the first n requests read have a message
RECURSIVE WithMessage(_)
WithMessage(n) ==
    IF n = 0 THEN 0
    ELSE WithMessage(n - 1) + (IF HasMessage(RequestsRead[n]) THEN 1 ELSE 0)

AgentTerminates ==
    /\ [](exit_status = Present(1) =>
             /\ pc = "exited"
             /\ readLog = <<>>
             /\ stdout = <<>>
             /\ agentCalls = <<>>)
    /\ [][pc = "exited" =>
             /\ pc' = "exited"
             /\ exit_status' = exit_status
             /\ readLog' = readLog
             /\ stdout' = stdout
             /\ agentCalls' = agentCalls]_vars
    /\ (~stdin_open ~> pc = "exited")
    /\ (~running ~> pc = "exited")

\* C29's case: the process has answered a request, read the end of input and
\* exited with status 0, leaving nothing unread
ExitedAtEndOfInput ==
    /\ pc = "exited"
    /\ exit_status = Present(0)
    /\ running
    /\ ~stdin_open
    /\ stdin = <<>>
    /\ Len(ResponsesPrinted) = Len(RequestsRead)
    /\ ResponsesPrinted # <<>>
====
